---------------------------- MODULE Spec2Model ----------------------------
(***************************************************************************)
(* Model of the panelizer panel-detection core: the reading-order solver   *)
(* (panelizer/ordering.py), the panel refinement stages                    *)
(* (panelizer/cv/pipeline.py over panel_flow/cv/panel_internal.py), the    *)
(* detector facade (panelizer/cv/detector.py) and the confidence model     *)
(* (panelizer/cv/confidence.py).                                           *)
(*                                                                         *)
(* Each subsystem has its own variables and its own specification; a       *)
(* specification leaves the variables of the other subsystems untouched.   *)
(***************************************************************************)
EXTENDS Integers, Sequences, FiniteSets, TLC

VARIABLES
    \* ---- reading-order solver (order_panels and its caller, process) ----
    bboxes,      \* the list of (x, y, w, h) handed to order_panels
    direction,   \* "ltr" or "rtl"
    indices,     \* order_panels' working list of panel indices (0-based)
    iteration,   \* order_panels' repair-pass counter
    moved,       \* number of indices the last repair pass moved (0 or 1)
    opc,         \* "call" | "loop" | "returned" | "paged"
    page_order,  \* Page.order, the panel ids in reading order
    \* ---- one refinement stage applied to an input working set ----
    conf,        \* image size, min_panel_ratio (as a fraction) and use_polygon
    panels_in,   \* the working set handed to the stage (list of panels)
    panels_out,  \* the working set the stage returns
    stage,       \* "input", or the name of the stage that has run
    \* ---- detect_panels ----
    flags,       \* panel_expansion, small / big_panel_grouping, panel_splitting
    segments,    \* the segments detect_segments found
    \* ---- CVDetector.detect: clamping and rescaling of one panel ----
    det,         \* the image, max_dimension, the panel and the output bbox
    \* ---- confidence scoring ----
    score,       \* the inputs of one scoring call and the value it returns
    \* ---- Segment: one call of intersect / union / union_all ----
    geo,         \* the segments handed to the call and the loop of union_all
    \* ---- preview server: the LRU cache and the threads using it ----
    cache,       \* the OrderedDict, the lock and each thread's position
    \* ---- preview server: one request handed to dispatch_request ----
    http,        \* the request, the state of the book and the response
    \* ---- one stage call followed step by step ----
    steps,       \* the loop steps the call has taken (group_big_panels: the
                 \* groupings accepted; expand_panels: the sides handled;
                 \* split_panels: the panels tried in the current pass)
    gray_img,    \* split_panels: the grayscale image (none, or the lines
                 \* along which its pixel variance is above max_variance)
    \* ---- preview server: PreviewApp shared by the request threads ----
    srv          \* the settings, the detector, the debug mode, the page
                 \* JSON cache and each thread's position

ordVars == <<bboxes, direction, indices, iteration, moved, opc, page_order>>

stageVars == <<conf, panels_in, panels_out, stage>>

pipeVars == <<flags, segments>>

sideVars == <<geo, cache, http, steps, gray_img, srv>>

vars == <<bboxes, direction, indices, iteration, moved, opc, page_order,
          conf, panels_in, panels_out, stage, flags, segments, det, score,
          geo, cache, http, steps, gray_img, srv>>

----------------------------------------------------------------------------
\* Generic helpers

Min2(a, b) == IF a <= b THEN a ELSE b
Max2(a, b) == IF a >= b THEN a ELSE b
Abs(a) == IF a < 0 THEN -a ELSE a

RECURSIVE SeqSum(_)
SeqSum(s) == IF s = <<>> THEN 0 ELSE Head(s) + SeqSum(Tail(s))

\* All sequences over S of length 0..n
SeqsUpTo(S, n) == UNION {[1..k -> S] : k \in 0..n}

\* The integers of the finite set S as an ascending sequence
SortedSeq(S) ==
    [k \in 1..Cardinality(S) |->
        CHOOSE i \in S : Cardinality({j \in S : j < i}) = k - 1]

\* Position (1-based) of the first occurrence of e in s, 0 when absent
IndexOf(s, e) ==
    IF \E k \in 1..Len(s) : s[k] = e
    THEN CHOOSE k \in 1..Len(s) : s[k] = e /\ \A j \in 1..(k-1) : s[j] # e
    ELSE 0

----------------------------------------------------------------------------
\* Reading-order solver: panelizer/ordering.py

\* Bound of the ordering inputs: the longest list of bboxes
MaxBoxes == 4

\* (x, y, w, h) -> (x, y, right, bottom)
_to_xyrb(bbox) == <<bbox[1], bbox[2], bbox[1] + bbox[3], bbox[2] + bbox[4]>>

\* The row/column test on two spans (lo, hi), the first one starting first:
\* disjoint, contained, or intersecting by at least a third of the smaller
\* extent. The float test intersection / min >= 1/3 is 3 * intersection >= min
\* on integers.
SpanAligned(lo1, hi1, lo2, hi2) ==
    IF lo2 > hi1 THEN FALSE
    ELSE IF hi2 < hi1 THEN TRUE
    ELSE \/ Min2(hi1 - lo1, hi2 - lo2) = 0
         \/ /\ Min2(hi1 - lo1, hi2 - lo2) > 0
            /\ 3 * (Min2(hi1, hi2) - lo2) >= Min2(hi1 - lo1, hi2 - lo2)
         \/ /\ Min2(hi1 - lo1, hi2 - lo2) < 0
            /\ 3 * (Min2(hi1, hi2) - lo2) <= Min2(hi1 - lo1, hi2 - lo2)

same_row(bbox1, bbox2) ==
    IF bbox1[2] > bbox2[2]
    THEN SpanAligned(bbox2[2], bbox2[2] + bbox2[4], bbox1[2], bbox1[2] + bbox1[4])
    ELSE SpanAligned(bbox1[2], bbox1[2] + bbox1[4], bbox2[2], bbox2[2] + bbox2[4])

same_col(bbox1, bbox2) ==
    IF bbox1[1] > bbox2[1]
    THEN SpanAligned(bbox2[1], bbox2[1] + bbox2[3], bbox1[1], bbox1[1] + bbox1[3])
    ELSE SpanAligned(bbox1[1], bbox1[1] + bbox1[3], bbox2[1], bbox2[1] + bbox2[3])

\* Panel indices are 0-based as in the code; bbs[i + 1] is bboxes[i]
PanelIdx(bbs) == 0..(Len(bbs) - 1)

\* The first of the candidates cand with the largest key: max(..., key=...)
\* keeps the first maximal element of the list
FirstMaxBottom(cand, bbs) ==
    CHOOSE i \in cand :
        \A j \in cand :
            \/ _to_xyrb(bbs[j + 1])[4] < _to_xyrb(bbs[i + 1])[4]
            \/ (_to_xyrb(bbs[j + 1])[4] = _to_xyrb(bbs[i + 1])[4] /\ i <= j)

TopCandidates(idx, bbs) ==
    {i \in PanelIdx(bbs) :
        /\ i # idx
        /\ _to_xyrb(bbs[i + 1])[4] <= _to_xyrb(bbs[idx + 1])[2]
        /\ same_col(bbs[idx + 1], bbs[i + 1])}

\* find_top_panel: -1 stands for None
find_top_panel(idx, bbs) ==
    IF TopCandidates(idx, bbs) = {} THEN -1
    ELSE FirstMaxBottom(TopCandidates(idx, bbs), bbs)

\* The list comprehensions of the code keep ascending index order
find_all_left_panels(idx, bbs) ==
    SortedSeq({i \in PanelIdx(bbs) :
                  /\ i # idx
                  /\ _to_xyrb(bbs[i + 1])[3] <= _to_xyrb(bbs[idx + 1])[1]
                  /\ same_row(bbs[idx + 1], bbs[i + 1])})

\* A variant that collects the panels to the left instead
find_all_right_panels_as_left(idx, bbs) ==
    SortedSeq({i \in PanelIdx(bbs) :
                  /\ i # idx
                  /\ _to_xyrb(bbs[i + 1])[3] <= _to_xyrb(bbs[idx + 1])[1]
                  /\ same_row(bbs[idx + 1], bbs[i + 1])})

find_all_right_panels(idx, bbs) ==
    SortedSeq({i \in PanelIdx(bbs) :
                  /\ i # idx
                  /\ _to_xyrb(bbs[i + 1])[1] >= _to_xyrb(bbs[idx + 1])[3]
                  /\ same_row(bbs[idx + 1], bbs[i + 1])})

TopAsList(top) == IF top # -1 THEN <<top>> ELSE <<>>

\* neighbors_before of the repair loop: the top panel, then the row panels
neighbors_before(idx, bbs, dir) ==
    TopAsList(find_top_panel(idx, bbs))
    \o (IF dir = "rtl" THEN find_all_right_panels(idx, bbs)
        ELSE find_all_left_panels(idx, bbs))

\* The sort key (y, x) or (y, -x), compared lexicographically
KeyLess(y1, x1, y2, x2) == y1 < y2 \/ (y1 = y2 /\ x1 < x2)

SortKeyLess(bbs, dir, i, j) ==
    IF dir = "ltr"
    THEN KeyLess(bbs[i + 1][2], bbs[i + 1][1], bbs[j + 1][2], bbs[j + 1][1])
    ELSE KeyLess(bbs[i + 1][2], -bbs[i + 1][1], bbs[j + 1][2], -bbs[j + 1][1])

\* Number of panels the sort puts before panel i; list.sort is stable, so
\* equal keys keep index order
SortRank(bbs, dir, i) ==
    Cardinality({j \in PanelIdx(bbs) :
                    /\ j # i
                    /\ \/ SortKeyLess(bbs, dir, j, i)
                       \/ (~SortKeyLess(bbs, dir, i, j) /\ j < i)})

initial_order(bbs, dir) ==
    [k \in 1..Len(bbs) |-> CHOOSE i \in PanelIdx(bbs) : SortRank(bbs, dir, i) = k - 1]

\* Position in ind of the first member of the list nb that sits after
\* position pos; 0 when there is none. Positions are 1-based here.
FirstLateIn(nb, ind, pos) ==
    IF \A k \in 1..Len(nb) : IndexOf(ind, nb[k]) <= pos THEN 0
    ELSE IndexOf(ind, nb[CHOOSE k \in 1..Len(nb) :
                            /\ pos < IndexOf(ind, nb[k])
                            /\ \A j \in 1..(k - 1) : IndexOf(ind, nb[j]) <= pos])

\* A variant that looks at the first neighbour of the list only
first_late_neighbour_top_only(ind, pos, bbs, dir) ==
    FirstLateIn(TopAsList(find_top_panel(ind[pos], bbs)), ind, pos)

\* The first neighbour (in list order) of the panel at position pos that sits
\* at a later position; 0 when there is none
first_late_neighbour(ind, pos, bbs, dir) ==
    FirstLateIn(neighbors_before(ind[pos], bbs, dir), ind, pos)

\* A variant that inserts without popping first
move_after_no_pop(ind, pos, npos) ==
    [k \in 1..Len(ind) |->
        IF k < npos THEN ind[k]
        ELSE IF k = npos THEN ind[pos]
        ELSE ind[k - 1]]

\* indices.insert(neighbor_pos, indices.pop(pos)): the panel lands right after
\* its neighbour
move_after(ind, pos, npos) ==
    [k \in 1..Len(ind) |->
        IF k < pos \/ k > npos THEN ind[k]
        ELSE IF k < npos THEN ind[k + 1]
        ELSE ind[pos]]

\* The loop over positions: the first position with a late neighbour, 0 when
\* the pass finds none
first_bad_pos(ind, bbs, dir) ==
    IF \A pos \in 1..Len(ind) : first_late_neighbour(ind, pos, bbs, dir) = 0 THEN 0
    ELSE CHOOSE pos \in 1..Len(ind) :
            /\ first_late_neighbour(ind, pos, bbs, dir) # 0
            /\ \A q \in 1..(pos - 1) : first_late_neighbour(ind, q, bbs, dir) = 0

RepairAt(ind, pos, bbs, dir) ==
    IF pos = 0 THEN ind
    ELSE move_after(ind, pos, first_late_neighbour(ind, pos, bbs, dir))

\* One pass of the while loop body: the list after the pass
repair_pass(ind, bbs, dir) == RepairAt(ind, first_bad_pos(ind, bbs, dir), bbs, dir)

\* Panel ids are "p-<i>"; an id is modelled as the pair <<"p-", i>>
PanelId(i) == <<"p-", i>>

----------------------------------------------------------------------------
\* Geometry kernel: InternalPanel (panel_flow/cv/panel_internal.py)

\* An internal panel: bounds (x, y, r, b), whether it carries a polygon, and
\* the splittable flag. The image size and small_panel_ratio every panel
\* carries are the same for all panels of a page and live in the configuration.
Panel(x, y, r, b, poly, spl) ==
    [x |-> x, y |-> y, r |-> r, b |-> b, poly |-> poly, spl |-> spl]

\* InternalPanel(img_size, ratio, xywh=...): no polygon, splittable
from_xywh(x, y, pw, ph) == Panel(x, y, x + pw, y + ph, FALSE, TRUE)

from_xyrb(x, y, r, b) == from_xywh(x, y, r - x, b - y)

w(p) == p.r - p.x

h(p) == p.b - p.y

area(p) == w(p) * h(p)

to_xywh(p) == <<p.x, p.y, w(p), h(p)>>

\* __eq__: bounds equal within wt = w/10 and ht = h/10 of the left operand
panel_eq(p, o) ==
    /\ 10 * Abs(p.x - o.x) < w(p)
    /\ 10 * Abs(p.y - o.y) < h(p)
    /\ 10 * Abs(p.r - o.r) < w(p)
    /\ 10 * Abs(p.b - o.b) < h(p)

\* The configuration: image size (W, H), min_panel_ratio = num / den (a dyadic
\* fraction, so that the float products of is_small are exact), use_polygon
Config(W, H, num, den, poly) ==
    [W |-> W, H |-> H, num |-> num, den |-> den, poly |-> poly]

\* is_small(extra_ratio) with extra_ratio = en / ed:
\* w < W * ratio * extra or h < H * ratio * extra
is_small_extra(p, c, en, ed) ==
    \/ w(p) * c.den * ed < c.W * c.num * en
    \/ h(p) * c.den * ed < c.H * c.num * en

is_small(p, c) == is_small_extra(p, c, 1, 1)

is_very_small(p, c) == is_small_extra(p, c, 1, 10)

\* overlap_panel is None exactly when has_overlap is false
has_overlap(p, o) ==
    ~(p.x > o.r \/ o.x > p.r \/ p.y > o.b \/ o.y > p.b)

overlap_panel(p, o) ==
    from_xywh(Max2(p.x, o.x), Max2(p.y, o.y),
              Min2(p.r, o.r) - Max2(p.x, o.x), Min2(p.b, o.b) - Max2(p.y, o.y))

overlap_area(p, o) == IF has_overlap(p, o) THEN area(overlap_panel(p, o)) ELSE 0

\* overlaps: more than 10% of the smaller panel; zero-area panels overlap
\* whenever the rectangles meet
overlaps(p, o) ==
    /\ has_overlap(p, o)
    /\ \/ Min2(area(p), area(o)) = 0
       \/ 10 * area(overlap_panel(p, o)) > Min2(area(p), area(o))

\* contains: more than 50% of other lies in self (other.area() > 0 assumed,
\* the code divides by it)
contains(p, o) ==
    /\ has_overlap(p, o)
    /\ 2 * area(overlap_panel(p, o)) > area(o)

\* InternalPanel.same_row / same_col: sorted() is stable, so on equal y (x)
\* the first operand is the upper (left) one
panel_same_row(p, o) ==
    IF p.y > o.y THEN SpanAligned(o.y, o.b, p.y, p.b)
    ELSE SpanAligned(p.y, p.b, o.y, o.b)

panel_same_col(p, o) ==
    IF p.x > o.x THEN SpanAligned(o.x, o.r, p.x, p.r)
    ELSE SpanAligned(p.x, p.r, o.x, o.r)

\* group_with: the bounding rectangle of both
group_with(p, o) ==
    from_xywh(Min2(p.x, o.x), Min2(p.y, o.y),
              Max2(p.r, o.r) - Min2(p.x, o.x), Max2(p.b, o.b) - Min2(p.y, o.y))

\* is_close: centres within 75% of the summed widths and heights
\* (all terms times 4, the centres being halves)
is_close(p, o) ==
    /\ 2 * Abs((2 * p.x + w(p)) - (2 * o.x + w(o))) <= 3 * (w(p) + w(o))
    /\ 2 * Abs((2 * p.y + h(p)) - (2 * o.y + h(o))) <= 3 * (h(p) + h(o))

\* `p in lst` and lst.remove(p) compare `item is p or item == p`, the list
\* item on the left. Panels of one working list are identified by position.
\* PosIn(ps, k, idxs): is the panel at position k "in" the sub-list of ps at
\* the positions idxs
PosIn(ps, k, idxs) ==
    \E q \in idxs : q = k \/ panel_eq(ps[q], ps[k])

\* The list ps without the positions in drop
RECURSIVE WithoutPos(_, _, _)
WithoutPos(ps, drop, k) ==
    IF k > Len(ps) THEN <<>>
    ELSE (IF k \in drop THEN <<>> ELSE <<ps[k]>>) \o WithoutPos(ps, drop, k + 1)

----------------------------------------------------------------------------
\* Refinement stages: panelizer/cv/pipeline.py

\* remove_contained_panels, inner loop for p1 = ps[i]: the position of the
\* first p2 (in list order) that holds >= threshold = 0.9 of p1; 0 if none.
\* The `break` leaves the inner loop at that p2.
first_container(ps, i) ==
    IF \A j \in 1..Len(ps) :
          ~(/\ j # i
            /\ has_overlap(ps[i], ps[j])
            /\ area(ps[i]) > 0
            /\ 10 * area(overlap_panel(ps[i], ps[j])) >= 9 * area(ps[i]))
    THEN 0
    ELSE CHOOSE j \in 1..Len(ps) :
            /\ j # i
            /\ has_overlap(ps[i], ps[j])
            /\ area(ps[i]) > 0
            /\ 10 * area(overlap_panel(ps[i], ps[j])) >= 9 * area(ps[i])
            /\ \A k \in 1..(j - 1) :
                  ~(/\ k # i
                    /\ has_overlap(ps[i], ps[k])
                    /\ 10 * area(overlap_panel(ps[i], ps[k])) >= 9 * area(ps[i]))

\* to_remove with prefer_smaller=True: the containers found, by position
contained_to_remove(ps) ==
    {first_container(ps, i) : i \in 1..Len(ps)} \ {0}

\* return [p for p in panels if p not in to_remove]
remove_contained_panels(ps) ==
    WithoutPos(ps, {k \in 1..Len(ps) : PosIn(ps, k, contained_to_remove(ps))}, 1)

\* Neighbour search of InternalPanel over the working list ps, for the panel
\* at position i; the result is a position of ps, 0 for None. max() and min()
\* return the first extreme element in list order.
left_candidates(ps, i) ==
    {j \in 1..Len(ps) : ps[j].r <= ps[i].x /\ panel_same_row(ps[j], ps[i])}

right_candidates(ps, i) ==
    {j \in 1..Len(ps) : ps[j].x >= ps[i].r /\ panel_same_row(ps[j], ps[i])}

top_candidates(ps, i) ==
    {j \in 1..Len(ps) : ps[j].b <= ps[i].y /\ panel_same_col(ps[j], ps[i])}

bottom_candidates(ps, i) ==
    {j \in 1..Len(ps) : ps[j].y >= ps[i].b /\ panel_same_col(ps[j], ps[i])}

\* First position of cand whose field d is the greatest (smallest)
FirstMaxBy(ps, cand, d) ==
    IF cand = {} THEN 0
    ELSE CHOOSE j \in cand :
            \A k \in cand : ps[k][d] < ps[j][d] \/ (ps[k][d] = ps[j][d] /\ j <= k)

FirstMinBy(ps, cand, d) ==
    IF cand = {} THEN 0
    ELSE CHOOSE j \in cand :
            \A k \in cand : ps[k][d] > ps[j][d] \/ (ps[k][d] = ps[j][d] /\ j <= k)

find_left_panel(ps, i) == FirstMaxBy(ps, left_candidates(ps, i), "r")

find_right_panel(ps, i) == FirstMinBy(ps, right_candidates(ps, i), "x")

panel_find_top_panel(ps, i) == FirstMaxBy(ps, top_candidates(ps, i), "b")

find_bottom_panel(ps, i) == FirstMinBy(ps, bottom_candidates(ps, i), "y")

\* find_neighbour_panel(d, panels): the neighbour on the side of edge d
find_neighbour_panel(ps, i, d) ==
    CASE d = "x" -> find_left_panel(ps, i)
      [] d = "y" -> panel_find_top_panel(ps, i)
      [] d = "r" -> find_right_panel(ps, i)
      [] d = "b" -> find_bottom_panel(ps, i)

\* collect_all_gutters: the gaps to the left and to the top neighbours
gutters_x(ps) ==
    {ps[i].x - ps[find_left_panel(ps, i)].r :
        i \in {k \in 1..Len(ps) : find_left_panel(ps, k) # 0}}

gutters_y(ps) ==
    {ps[i].y - ps[panel_find_top_panel(ps, i)].b :
        i \in {k \in 1..Len(ps) : panel_find_top_panel(ps, k) # 0}}

\* min of a non-empty set of gaps; [1] when there is none
MinGutter(gs) == IF gs = {} THEN 1 ELSE CHOOSE g \in gs : \A o \in gs : g <= o

\* A variant of MinGutter that takes the widest gap
MaxGutter(gs) == IF gs = {} THEN 1 ELSE CHOOSE g \in gs : \A o \in gs : g >= o

\* A variant that takes the widest gap of each axis
actual_gutters_widest(ps) ==
    [x |-> MaxGutter(gutters_x(ps)), y |-> MaxGutter(gutters_y(ps)),
     r |-> 0 - MaxGutter(gutters_x(ps)), b |-> 0 - MaxGutter(gutters_y(ps))]

actual_gutters(ps) ==
    [x |-> MinGutter(gutters_x(ps)), y |-> MinGutter(gutters_y(ps)),
     r |-> 0 - MinGutter(gutters_x(ps)), b |-> 0 - MinGutter(gutters_y(ps))]

opposite == [x |-> "r", r |-> "x", y |-> "b", b |-> "y"]

ExpandDirs == <<"x", "y", "r", "b">>

\* The frame around all panels on side d: min of x / y, max of r / b
frame_coord(ps, d) ==
    IF d \in {"x", "y"}
    THEN ps[FirstMinBy(ps, 1..Len(ps), d)][d]
    ELSE ps[FirstMaxBy(ps, 1..Len(ps), d)][d]

\* newcoord: the neighbour's facing edge plus the gutter, or the frame
expand_newcoord(ps, d, g, nb) ==
    IF nb # 0 THEN ps[nb][opposite[d]] + g[d] ELSE frame_coord(ps, d)

\* Mutant of expand_apply: the new coordinate is always applied
expand_apply_unguarded(ps, i, d, nc) == [ps EXCEPT ![i][d] = nc]

\* setattr(p, d, newcoord) only if it enlarges the panel
expand_apply(ps, i, d, nc) ==
    IF d \in {"r", "b"}
    THEN (IF nc > ps[i][d] THEN [ps EXCEPT ![i][d] = nc] ELSE ps)
    ELSE (IF nc < ps[i][d] THEN [ps EXCEPT ![i][d] = nc] ELSE ps)

expand_step(ps, i, d, g) ==
    expand_apply(ps, i, d, expand_newcoord(ps, d, g, find_neighbour_panel(ps, i, d)))

\* for p in panels: for d in ("x", "y", "r", "b"), step k of 4 * len(panels);
\* the panels are changed in place, later steps see earlier changes
RECURSIVE expand_from(_, _, _)
expand_from(ps, g, k) ==
    IF k >= 4 * Len(ps) THEN ps
    ELSE expand_from(expand_step(ps, (k \div 4) + 1, ExpandDirs[(k % 4) + 1], g),
                     g, k + 1)

expand_panels(ps) ==
    IF ps = <<>> THEN ps ELSE expand_from(ps, actual_gutters(ps), 0)

\* deoverlap_panels, the two adjustments for the pair (p1, p2) = (ps[i], ps[j])
\* with overlap rectangle o: p1.r = o.x; p2.x = o.r when o is taller than
\* wide and ends at p1's right edge, p1.b = o.y; p2.y = o.b when o is wider
\* than tall and ends at p1's bottom edge. The two assignments run in this
\* order on the panels of the list (p1 and p2 may be one panel).
deoverlap_adjust(ps, i, j, o) ==
    IF w(o) < h(o) /\ ps[i].r = o.r
    THEN [[ps EXCEPT ![i].r = o.x] EXCEPT ![j].x = o.r]
    ELSE IF w(o) > h(o) /\ ps[i].b = o.b
    THEN [[ps EXCEPT ![i].b = o.y] EXCEPT ![j].y = o.b]
    ELSE ps

\* A variant that moves the two edges one pixel past the overlap
deoverlap_pair_apart(ps, i, j) ==
    IF panel_eq(ps[i], ps[j]) THEN ps
    ELSE IF ~has_overlap(ps[i], ps[j]) THEN ps
    ELSE IF w(overlap_panel(ps[i], ps[j])) < h(overlap_panel(ps[i], ps[j]))
            /\ ps[i].r = overlap_panel(ps[i], ps[j]).r
    THEN [[ps EXCEPT ![i].r = overlap_panel(ps[i], ps[j]).x - 1]
              EXCEPT ![j].x = overlap_panel(ps[i], ps[j]).r + 1]
    ELSE ps

\* `if p1 == p2: continue` is the tolerant __eq__ of p1, not identity
deoverlap_pair(ps, i, j) ==
    IF panel_eq(ps[i], ps[j]) THEN ps
    ELSE IF ~has_overlap(ps[i], ps[j]) THEN ps
    ELSE deoverlap_adjust(ps, i, j, overlap_panel(ps[i], ps[j]))

\* for p1 in panels: for p2 in panels, pair k of len(panels) ** 2, in place
RECURSIVE deoverlap_from(_, _)
deoverlap_from(ps, k) ==
    IF k >= Len(ps) * Len(ps) THEN ps
    ELSE deoverlap_from(deoverlap_pair(ps, (k \div Len(ps)) + 1, (k % Len(ps)) + 1),
                        k + 1)

deoverlap_panels(ps) == deoverlap_from(ps, 0)

\* group_small_panels. The small panels are identified by their positions in
\* the working list; union-find over the is_close pairs yields the connected
\* components of the is_close graph.
small_positions(ps, c) == {k \in 1..Len(ps) : is_small(ps[k], c)}

\* The component of comp within the small positions S, by closure
RECURSIVE close_component(_, _, _)
close_component(ps, S, comp) ==
    IF \A j \in S \ comp : \A i \in comp : ~is_close(ps[i], ps[j])
    THEN comp
    ELSE close_component(ps, S,
             comp \cup {j \in S : \E i \in comp : is_close(ps[i], ps[j])})

component_of(ps, S, k) == close_component(ps, S, {k})

\* groups.values() with len(group) >= 2, each named by its first member; the
\* dict keeps the groups in the order of their first members
group_leaders(ps, S) ==
    {k \in S : /\ Cardinality(component_of(ps, S, k)) >= 2
               /\ \A m \in component_of(ps, S, k) : k <= m}

\* Right and bottom end of the points a member adds to the hull: the corners
\* (x + w, y + h) of a panel without polygon, the polygon itself otherwise,
\* whose greatest coordinates are r - 1 and b - 1 (boundingRect adds 1)
hull_r(p) == IF p.poly THEN p.r - 1 ELSE p.r

hull_b(p) == IF p.poly THEN p.b - 1 ELSE p.b

SetMin(S) == CHOOSE v \in S : \A o \in S : v <= o

SetMax(S) == CHOOSE v \in S : \A o \in S : v >= o

\* Mutant of hull_panel: the hull of the first member of the group only
hull_panel_first_member(ps, comp) ==
    Panel(ps[SetMin(comp)].x, ps[SetMin(comp)].y,
          hull_r(ps[SetMin(comp)]) + 1, hull_b(ps[SetMin(comp)]) + 1, TRUE, FALSE)

\* InternalPanel(polygon=convexHull(all points), splittable=False): the bounds
\* are the boundingRect of the hull
hull_panel(ps, comp) ==
    Panel(SetMin({ps[k].x : k \in comp}), SetMin({ps[k].y : k \in comp}),
          SetMax({hull_r(ps[k]) : k \in comp}) + 1,
          SetMax({hull_b(ps[k]) : k \in comp}) + 1, TRUE, FALSE)

grouped_panels(ps, S, leaders) ==
    [m \in 1..Len(leaders) |-> hull_panel(ps, component_of(ps, S, leaders[m]))]

grouped_members(ps, S) ==
    UNION {component_of(ps, S, k) : k \in group_leaders(ps, S)}

\* remaining + grouped_panels, remaining = [p for p in panels if p not in to_remove]
group_small_result(ps, S) ==
    WithoutPos(ps, {k \in 1..Len(ps) : PosIn(ps, k, grouped_members(ps, S))}, 1)
        \o grouped_panels(ps, S, SortedSeq(group_leaders(ps, S)))

group_small_panels(ps, c) ==
    IF Cardinality(small_positions(ps, c)) < 2 THEN ps
    ELSE IF group_leaders(ps, small_positions(ps, c)) = {} THEN ps
    ELSE group_small_result(ps, small_positions(ps, c))

\* Mutant of exclude_small: nothing is filtered out
exclude_small_keep_all(ps, c) == ps

\* exclude_small: [p for p in panels if not p.is_small()]
exclude_small(ps, c) == SelectSeq(ps, LAMBDA p : ~is_small(p, c))

\* bumps_into: self overlaps one of the others; `other == self` is the
\* tolerant __eq__ of other
bumps_into(p, others) == \E o \in others : ~panel_eq(o, p) /\ overlaps(p, o)

\* The list ps without its first element e with e == v (list.remove(v));
\* ps itself when there is none. Every panel here has positive width and
\* height, so a panel equals itself and identity adds nothing to ==.
FirstEq(ps, v) ==
    IF \A k \in 1..Len(ps) : ~panel_eq(ps[k], v) THEN 0
    ELSE CHOOSE k \in 1..Len(ps) :
            panel_eq(ps[k], v) /\ \A m \in 1..(k - 1) : ~panel_eq(ps[m], v)

RemoveFirstEq(ps, v) == WithoutPos(ps, {FirstEq(ps, v)}, 1)

\* InternalPanel.merge: self grown towards other on every side where other
\* reaches further, in all combinations; panels made by from_xyrb
merge_px(s, o) ==
    IF o.x < s.x THEN <<s, from_xyrb(o.x, s.y, s.r, s.b)>> ELSE <<s>>

merge_pr_unguarded(P, s, o) ==
    P \o [k \in 1..Len(P) |-> from_xyrb(P[k].x, P[k].y, o.r, P[k].b)]

merge_pr(P, s, o) ==
    IF o.r > s.r
    THEN P \o [k \in 1..Len(P) |-> from_xyrb(P[k].x, P[k].y, o.r, P[k].b)]
    ELSE P

merge_py(P, s, o) ==
    IF o.y < s.y
    THEN P \o [k \in 1..Len(P) |-> from_xyrb(P[k].x, o.y, P[k].r, P[k].b)]
    ELSE P

merge_pb(P, s, o) ==
    IF o.b > s.b
    THEN P \o [k \in 1..Len(P) |-> from_xyrb(P[k].x, P[k].y, P[k].r, o.b)]
    ELSE P

possible_panels(s, o) == merge_pb(merge_py(merge_pr(merge_px(s, o), s, o), s, o), s, o)

\* other_panels = [p for p in all_panels if p not in [self, other]]
merge_other_panels(ps, s, o) ==
    {ps[k] : k \in {m \in 1..Len(ps) : ~panel_eq(s, ps[m]) /\ ~panel_eq(o, ps[m])}}

\* max(..., key=area) returns the first panel of the greatest area
FirstMaxArea(P, ok) ==
    IF ok = {} THEN 0
    ELSE CHOOSE k \in ok :
            \A m \in ok : area(P[m]) < area(P[k]) \/ (area(P[m]) = area(P[k]) /\ k <= m)

merge_pick(P, s, others) ==
    IF FirstMaxArea(P, {k \in 1..Len(P) : ~bumps_into(P[k], others)}) = 0 THEN s
    ELSE P[FirstMaxArea(P, {k \in 1..Len(P) : ~bumps_into(P[k], others)})]

merge(s, o, ps) == merge_pick(possible_panels(s, o), s, merge_other_panels(ps, s, o))

\* merge_panels, inner loop for p1 = ps[i] over p2 = ps[j], j > i: `p1` is
\* rebound to the merged panel, which the list never receives; the panel
\* appended to panels_to_remove is p2 or the current p1. Yields the panels
\* appended while p1 runs over position i.
RECURSIVE merge_inner(_, _, _, _)
merge_inner(ps, p1, j, rem) ==
    IF j > Len(ps) THEN rem
    ELSE IF contains(p1, ps[j])
    THEN merge_inner(ps, merge(p1, ps[j], ps), j + 1, rem \cup {ps[j]})
    ELSE IF contains(ps[j], p1)
    THEN merge_inner(ps, p1, j + 1, rem \cup {p1})
    ELSE merge_inner(ps, p1, j + 1, rem)

\* set(panels_to_remove): panels of equal bounds hash alike and are equal
merge_to_remove(ps) ==
    {[x |-> v.x, y |-> v.y, r |-> v.r, b |-> v.b] :
        v \in UNION {merge_inner(ps, ps[i], i + 1, {}) : i \in 1..Len(ps)}}

\* for p in set(...): if p in panels: panels.remove(p) -- the set is walked in
\* an order the program does not fix; every order is a possible outcome
RECURSIVE removal_results(_, _)
removal_results(ps, R) ==
    IF R = {} THEN {ps}
    ELSE UNION {removal_results(RemoveFirstEq(ps, v), R \ {v}) : v \in R}

merge_panels_results(ps) == removal_results(ps, merge_to_remove(ps))

\* A segment from (ax, ay) to (bx, by)
Segment(ax, ay, bx, by) == [ax |-> ax, ay |-> ay, bx |-> bx, by |-> by]

dist_x(s) == Abs(s.bx - s.ax)

dist_y(s) == Abs(s.by - s.ay)

\* _is_axis_aligned: the angle atan(dist_y / dist_x) is at most 15 or at
\* least 75 degrees; tan(15 deg) = 0.267949..., tan(75 deg) = 3.732050...
is_axis_aligned(s) ==
    \/ dist_x(s) = 0
    \/ dist_y(s) * 1000000 <= 267949 * dist_x(s)
    \/ dist_y(s) * 1000000 >= 3732051 * dist_x(s)

\* contains_segment: the panel overlaps the bounding rectangle of the segment
contains_segment(p, s) ==
    overlaps(p, from_xyrb(Min2(s.ax, s.bx), Min2(s.ay, s.by),
                          Max2(s.ax, s.bx), Max2(s.ay, s.by)))

\* s is an axis-aligned segment within p3 longer than a fifth of p3's
\* diagonal (both sides squared, times 25)
blocking_segment(p3, s) ==
    /\ is_axis_aligned(s)
    /\ contains_segment(p3, s)
    /\ 25 * (dist_x(s) * dist_x(s) + dist_y(s) * dist_y(s)) > w(p3) * w(p3) + h(p3) * h(p3)

\* A variant that does not look at the segments
can_group_unblocked(ps, segs, i, j) ==
    ~bumps_into(group_with(ps[i], ps[j]), merge_other_panels(ps, ps[i], ps[j]))

\* The pair (p1, p2) = (ps[i], ps[j]) can be grouped: the union does not bump
\* into the other panels and no segment blocks it
can_group(ps, segs, i, j) ==
    /\ ~bumps_into(group_with(ps[i], ps[j]), merge_other_panels(ps, ps[i], ps[j]))
    /\ \A s \in segs : ~blocking_segment(group_with(ps[i], ps[j]), s)

\* The pairs i < j in the order of the two loops, numbered (i - 1) * n + j
group_pairs(ps, segs) ==
    {(pr[1] - 1) * Len(ps) + pr[2] :
        pr \in {q \in (1..Len(ps)) \X (1..Len(ps)) :
                    q[1] < q[2] /\ can_group(ps, segs, q[1], q[2])}}

\* panels.append(p3); panels.remove(p1); panels.remove(p2)
group_pair(ps, i, j) ==
    RemoveFirstEq(RemoveFirstEq(ps \o <<group_with(ps[i], ps[j])>>, ps[i]), ps[j])

group_first_pair(ps, k) ==
    group_pair(ps, ((k - 1) \div Len(ps)) + 1, ((k - 1) % Len(ps)) + 1)

\* while grouped: group the first pair that can be grouped and start over
RECURSIVE group_big_panels(_, _)
group_big_panels(ps, segs) ==
    IF group_pairs(ps, segs) = {} THEN ps
    ELSE group_big_panels(group_first_pair(ps, SetMin(group_pairs(ps, segs))), segs)

\* ---- Segment (panelizer/cv/segment.py) ----

\* Segment.__eq__: the same two endpoints, in either order
segment_eq(s, o) ==
    \/ s.ax = o.ax /\ s.ay = o.ay /\ s.bx = o.bx /\ s.by = o.by
    \/ s.ax = o.bx /\ s.ay = o.by /\ s.bx = o.ax /\ s.by = o.ay

\* dist() squared: dist() = sqrt(dist_x ** 2 + dist_y ** 2)
dist_squared(s) == dist_x(s) * dist_x(s) + dist_y(s) * dist_y(s)

segment_left(s) == Min2(s.ax, s.bx)

segment_top(s) == Min2(s.ay, s.by)

segment_right(s) == Max2(s.ax, s.bx)

segment_bottom(s) == Max2(s.ay, s.by)

\* angle(): atan(dist_y / dist_x), or pi / 2 when dist_x = 0; the direction
\* <<dx, dy>> of that angle, both coordinates non-negative
angle(s) == IF dist_x(s) = 0 THEN <<0, 1>> ELSE <<dist_x(s), dist_y(s)>>

\* angle_ok_with: the two angles differ by less than 10 degrees (both lie in
\* [0, 90], so the test against 180 degrees never holds). The difference t
\* of the angles has tan t = cross / dot, and tan(10 deg) = 0.176326...
angle_ok_with(s, o) ==
    Abs(angle(s)[1] * angle(o)[2] - angle(s)[2] * angle(o)[1]) * 1000000
        < 176327 * (angle(s)[1] * angle(o)[1] + angle(s)[2] * angle(o)[2])

\* round(n / d) for d > 0: to the nearest integer, a half to the even one
round_half_even(n, d) ==
    IF 2 * (n % d) < d THEN n \div d
    ELSE IF 2 * (n % d) > d THEN (n \div d) + 1
    ELSE IF (n \div d) % 2 = 0 THEN n \div d ELSE (n \div d) + 1

\* a + ap_ab / ab_ab * ab, each coordinate rounded
project_along(s, ap_ab, ab_ab) ==
    <<round_half_even(s.ax * ab_ab + ap_ab * (s.bx - s.ax), ab_ab),
      round_half_even(s.ay * ab_ab + ap_ab * (s.by - s.ay), ab_ab)>>

\* projected_point: a + dot(ap, ab) / dot(ab, ab) * ab, each coordinate
\* rounded; the endpoint a when the segment has no length
projected_point(s, px, py) ==
    IF s.bx = s.ax /\ s.by = s.ay THEN <<s.ax, s.ay>>
    ELSE project_along(s, (px - s.ax) * (s.bx - s.ax) + (py - s.ay) * (s.by - s.ay),
                       dist_squared(s))

\* gutter = max(self.dist(), other.dist()) * 5 / 100, squared and times 400
gutter_squared_400(s, o) == Max2(dist_squared(s), dist_squared(o))

\* d > gutter, for an integer d
beyond_gutter(d, s, o) == d > 0 /\ 400 * d * d > gutter_squared_400(s, o)

\* the four tests of "segments are apart"
segments_apart(s, o) ==
    \/ beyond_gutter(segment_left(o) - segment_right(s), s, o)
    \/ beyond_gutter(segment_left(s) - segment_right(o), s, o)
    \/ beyond_gutter(segment_top(o) - segment_bottom(s), s, o)
    \/ beyond_gutter(segment_top(s) - segment_bottom(o), s, o)

\* Segment(c, d).dist(), squared
dots_dist_squared(c, d) ==
    (d[1] - c[1]) * (d[1] - c[1]) + (d[2] - c[2]) * (d[2] - c[2])

\* Segment(p, self.projected_point(p)).dist(), squared
projected_dist_squared(s, px, py) ==
    dots_dist_squared(<<px, py>>, projected_point(s, px, py))

\* (sqrt(A) + sqrt(B)) / 2 > sqrt(M) / 20, in integers:
\* 100 (A + B) + 200 sqrt(A B) > M
mean_root_beyond(A, B, M) ==
    IF 100 * (A + B) > M THEN TRUE
    ELSE 40000 * A * B > (M - 100 * (A + B)) * (M - 100 * (A + B))

\* (dist_c_to_ab + dist_d_to_ab) / 2 > gutter
too_far(s, o) ==
    mean_root_beyond(projected_dist_squared(s, o.ax, o.ay),
                     projected_dist_squared(s, o.bx, o.by),
                     gutter_squared_400(s, o))

\* [self.a, self.b, other.a, other.b]
four_dots(s, o) == <<<<s.ax, s.ay>>, <<s.bx, s.by>>, <<o.ax, o.ay>>, <<o.bx, o.by>>>>

\* sorted(dots, key=sum): the position of dots[k] in the sorted list; the
\* sort is stable, dots with equal sums keep their order
sorted_position(dots, k) ==
    1 + Cardinality({j \in 1..Len(dots) :
            \/ dots[j][1] + dots[j][2] < dots[k][1] + dots[k][2]
            \/ dots[j][1] + dots[j][2] = dots[k][1] + dots[k][2] /\ j < k})

sorted_dots(dots) ==
    [n \in 1..Len(dots) |->
        dots[CHOOSE k \in 1..Len(dots) : sorted_position(dots, k) = n]]

\* Segment(dots[1], dots[2])
segment_of(dots) == Segment(dots[1][1], dots[1][2], dots[2][1], dots[2][2])

\* intersect: <<>> for None, else <<Segment(b, c)>> of the two middle dots
intersect(s, o) ==
    IF ~angle_ok_with(s, o) \/ segments_apart(s, o) \/ too_far(s, o) THEN <<>>
    ELSE <<segment_of(SubSeq(sorted_dots(four_dots(s, o)), 2, 3))>>

\* list.remove(d): without the first element equal to d
remove_dot(dots, d) ==
    WithoutPos(dots, {CHOOSE k \in 1..Len(dots) :
                         dots[k] = d /\ \A j \in 1..(k - 1) : dots[j] # d}, 1)

\* dots.remove(intersect.a); dots.remove(intersect.b); Segment(dots[0], dots[1])
union_dots(s, o, isect) ==
    segment_of(remove_dot(remove_dot(four_dots(s, o), <<isect.ax, isect.ay>>),
                          <<isect.bx, isect.by>>))

\* the union, given the result of self.intersect(other)
union_over(s, o, intersection) ==
    IF intersection = <<>> THEN <<>> ELSE <<union_dots(s, o, intersection[1])>>

\* union: <<>> for None, else the segment of the two dots that are left when
\* the endpoints of the intersection are removed
union(s, o) == union_over(s, o, intersect(s, o))

\* s in used, with Segment.__eq__
in_used(used, s) == \E k \in 1..Len(used) : segment_eq(used[k], s)

\* union_all, the inner loop for s1 = segs[i]: the positions after i of the
\* segments not yet used whose union with s1 exists
union_partners(segs, i, used) ==
    {j \in (i + 1)..Len(segs) :
        ~in_used(used, segs[j]) /\ union(segs[i], segs[j]) # <<>>}

\* union_all, one pass of the while loop from position i on: the lists
\* dedup_segments and used when the for loop ends. union_step is the body of
\* the for loop for s1 = segs[i], given the partners of s1
RECURSIVE union_pass(_, _, _, _)
union_step(segs, i, dedup, used, partners) ==
    IF partners # {}
    THEN union_pass(segs, i + 1,
                    dedup \o union(segs[i], segs[SetMin(partners)]),
                    used \o <<segs[i], segs[SetMin(partners)]>>)
    ELSE union_pass(segs, i + 1,
                    IF in_used(used, segs[i]) THEN dedup ELSE dedup \o <<segs[i]>>,
                    used)

union_pass(segs, i, dedup, used) ==
    IF i > Len(segs) THEN [dedup |-> dedup, used |-> used]
    ELSE union_step(segs, i, dedup, used, union_partners(segs, i, used))

\* union_all: passes until one unions nothing (that pass used no segment)
RECURSIVE union_all(_)
union_again(last_pass) ==
    IF last_pass.used = <<>> THEN last_pass.dedup ELSE union_all(last_pass.dedup)

union_all(segs) == union_again(union_pass(segs, 1, <<>>, <<>>))

\* intersect_all: the intersections that exist, unioned
RECURSIVE intersections(_, _, _)
intersections(s, segs, k) ==
    IF k > Len(segs) THEN <<>>
    ELSE intersect(s, segs[k]) \o intersections(s, segs, k + 1)

intersect_all(s, segs) == union_all(intersections(s, segs, 1))

\* split_panels. Where split() looks for a split depends on the polygon; the
\* model takes every cut through the middle of the panel, across or along,
\* whose sub-panels pass the checks of _cached_split and whose segment the
\* detected segments cover by more than half. The two sub-polygons do not
\* share the dots of the cut, their bounding rectangles meet in a strip of 0
\* or 1 pixel.
can_split(p, c) == p.spl /\ p.poly /\ ~is_small_extra(p, c, 2, 1)

split_cuts(p) ==
    {<<Panel(p.x, p.y, ((p.x + p.r) \div 2) + ov, p.b, TRUE, TRUE),
       Panel((p.x + p.r) \div 2, p.y, p.r, p.b, TRUE, TRUE)>> : ov \in {0, 1}}
    \cup
    {<<Panel(p.x, p.y, p.r, ((p.y + p.b) \div 2) + ov, TRUE, TRUE),
       Panel(p.x, (p.y + p.b) \div 2, p.r, p.b, TRUE, TRUE)>> : ov \in {0, 1}}

\* Split.segment: the segment along which the polygon is cut
split_segment(p, sub) ==
    IF sub[2].y = p.y THEN Segment(sub[2].x, p.y, sub[2].x, p.b)
                      ELSE Segment(p.x, sub[2].y, p.r, sub[2].y)

\* all_segments as a list, in the order detect_segments returned it
RECURSIVE segment_list(_)
segment_list(segs) ==
    IF segs = {} THEN <<>>
    ELSE <<CHOOSE s \in segs : TRUE>> \o segment_list(segs \ {CHOOSE s \in segs : TRUE})

\* get_segments: the segments the panel contains
get_segments(p, segs) ==
    SelectSeq(segment_list(segs), LAMBDA s : contains_segment(p, s))

\* floor(sqrt(n)) for n < 2 ^ 24, found bit by bit from the highest bit down
RECURSIVE sqrt_from(_, _, _)
sqrt_from(n, root, bit) ==
    IF bit = 0 THEN root
    ELSE IF (root + bit) * (root + bit) <= n
         THEN sqrt_from(n, root + bit, bit \div 2)
         ELSE sqrt_from(n, root, bit \div 2)

floor_sqrt(n) == sqrt_from(n, 0, 2048)

\* dist() in hundredths, rounded down
dist_100(s) == floor_sqrt(10000 * dist_squared(s))

\* sum([s.dist() for s in matching_segments]), in hundredths
sum_dist_100(matching_segments) ==
    SeqSum([k \in 1..Len(matching_segments) |-> dist_100(matching_segments[k])])

\* Split.covered_dist in hundredths: the lengths of the matching segments
covered_dist(p, sub, segs) ==
    sum_dist_100(intersect_all(split_segment(p, sub), get_segments(p, segs)))

\* segments_coverage() > 50 / 100, the coverage being 0 for a segment of
\* no length
covers_split(p, sub, segs) ==
    /\ dist_squared(split_segment(p, sub)) # 0
    /\ 2 * covered_dist(p, sub, segs) > dist_100(split_segment(p, sub))

subpanels_uncovered(p, c, segs) ==
    {sub \in split_cuts(p) :
        /\ ~is_small(sub[1], c) /\ ~is_small(sub[2], c)
        /\ ~panel_eq(sub[1], p) /\ ~panel_eq(sub[2], p)
        /\ ~overlaps(sub[1], sub[2])}

subpanels(p, c, segs) ==
    {sub \in split_cuts(p) :
        /\ ~is_small(sub[1], c) /\ ~is_small(sub[2], c)
        /\ ~panel_eq(sub[1], p) /\ ~panel_eq(sub[2], p)
        /\ ~overlaps(sub[1], sub[2])
        /\ covers_split(p, sub, segs)}

\* panels.remove(p); panels += split.subpanels, for every panel that can split
split_once(ps, c, segs) ==
    UNION {{RemoveFirstEq(ps, ps[k]) \o sub : sub \in subpanels(ps[k], c, segs)} :
              k \in {m \in 1..Len(ps) : can_split(ps[m], c)}}

\* When the loop ends every panel was tried: split() returned None and set
\* splittable = False, or (rejected) its split was refused by the gutter check
mark_unsplit(ps, c, segs, rejected) ==
    [k \in 1..Len(ps) |->
        IF rejected /\ can_split(ps[k], c) /\ subpanels(ps[k], c, segs) # {}
        THEN ps[k] ELSE [ps[k] EXCEPT !.spl = FALSE]]

\* The working sets after at most n splits
RECURSIVE split_upto(_, _, _, _)
split_upto(ps, c, segs, n) ==
    IF n = 0 THEN {ps}
    ELSE {ps} \cup UNION {split_upto(l, c, segs, n - 1) : l \in split_once(ps, c, segs)}

split_panels_results(ps, c, segs, n) ==
    {mark_unsplit(l, c, segs, rejected) :
        l \in split_upto(ps, c, segs, n), rejected \in BOOLEAN}

----------------------------------------------------------------------------
\* One stage applied to an input working set

\* Bound of the stage inputs: the longest working set
MaxPanels == 3

\* Page size of the stage inputs
PageSide == 12

\* The bounds (x, y, r, b) the input panels are drawn from: the full page and
\* a panel one pixel short of it (equal to it within the tolerance of __eq__),
\* a corner panel and the page-wide and page-high panels that hold it, panels
\* apart by a gutter of two pixels, a panel touching its neighbour's edge,
\* panels overlapping a neighbour by a one-pixel strip, and small panels
\* close to and far from each other
RectSet ==
    {<<0, 0, 12, 12>>, <<1, 0, 12, 12>>,
     <<0, 0, 5, 5>>, <<0, 0, 12, 5>>, <<0, 0, 5, 12>>,
     <<7, 0, 12, 5>>, <<0, 7, 5, 12>>, <<5, 7, 12, 12>>,
     <<4, 0, 8, 5>>, <<0, 4, 5, 8>>,
     <<0, 0, 2, 2>>, <<3, 0, 5, 2>>, <<10, 10, 12, 12>>}

\* initial_panels: every panel is built from its contour's polygon
\* (use_polygon) or from its bounding rectangle, and is splittable
InitialPanel(rect, poly) == Panel(rect[1], rect[2], rect[3], rect[4], poly, TRUE)

NoFlags ==
    [expansion |-> FALSE, small_grouping |-> FALSE, big_grouping |-> FALSE,
     splitting |-> FALSE]

GeoIdle == geo = [pc |-> "idle"]

CacheIdle == cache = [pc |-> "idle"]

HttpIdle == http = [pc |-> "idle"]

StepsIdle == steps = 0 /\ gray_img = <<>>

SrvIdle == srv = [pc |-> "idle"]

SideIdle == GeoIdle /\ CacheIdle /\ HttpIdle /\ StepsIdle /\ SrvIdle

ScoreIdle == score = [pc |-> "idle"] /\ SideIdle

DetIdle ==
    /\ det = [pc |-> "idle"]
    /\ ScoreIdle

PipeIdle ==
    /\ flags = NoFlags
    /\ segments = {}
    /\ DetIdle

StageIdle ==
    /\ conf = Config(0, 0, 1, 1, FALSE)
    /\ panels_in = <<>>
    /\ panels_out = <<>>
    /\ stage = "idle"
    /\ PipeIdle

OrdIdle ==
    /\ bboxes = <<>>
    /\ direction = "ltr"
    /\ indices = <<>>
    /\ iteration = 0
    /\ moved = 0
    /\ opc = "idle"
    /\ page_order = <<>>

\* The solver, the stages, the pipeline, the detector and the scoring at rest
CoreIdle ==
    /\ OrdIdle
    /\ conf = Config(0, 0, 1, 1, FALSE)
    /\ panels_in = <<>>
    /\ panels_out = <<>>
    /\ stage = "idle"
    /\ flags = NoFlags
    /\ segments = {}
    /\ det = [pc |-> "idle"]
    /\ score = [pc |-> "idle"]
    /\ StepsIdle

StageInit ==
    /\ conf \in {Config(PageSide, PageSide, 1, 4, poly) : poly \in BOOLEAN}
    /\ \E rects \in SeqsUpTo(RectSet, MaxPanels) :
          panels_in = [k \in 1..Len(rects) |-> InitialPanel(rects[k], conf.poly)]
    /\ panels_out = <<>>
    /\ stage = "input"
    /\ OrdIdle
    /\ PipeIdle

RunRemoveContained ==
    /\ stage = "input"
    /\ panels_out' = remove_contained_panels(panels_in)
    /\ stage' = "remove_contained"
    /\ UNCHANGED <<conf, panels_in>>

RunExpand ==
    /\ stage = "input"
    /\ panels_out' = expand_panels(panels_in)
    /\ stage' = "expand"
    /\ UNCHANGED <<conf, panels_in>>

RunDeoverlap ==
    /\ stage = "input"
    /\ panels_out' = deoverlap_panels(panels_in)
    /\ stage' = "deoverlap"
    /\ UNCHANGED <<conf, panels_in>>

RunGroupSmall ==
    /\ stage = "input"
    /\ panels_out' = group_small_panels(panels_in, conf)
    /\ stage' = "group_small"
    /\ UNCHANGED <<conf, panels_in>>

\* merge_panels: the set of panels to remove is walked in any order
RunMergePanels ==
    /\ stage = "input"
    /\ panels_out' \in merge_panels_results(panels_in)
    /\ stage' = "merge"
    /\ UNCHANGED <<conf, panels_in>>

StageNext ==
    /\ \/ RunRemoveContained \/ RunExpand \/ RunDeoverlap \/ RunGroupSmall
       \/ RunMergePanels
    /\ UNCHANGED <<ordVars, pipeVars, det, score, sideVars>>

SpecStage == StageInit /\ [][StageNext]_vars


\* One call of group_big_panels, pass by pass.  The segments handed to it:
\* none, the gutters through the middle of the page, a short segment, a
\* diagonal one, a slightly tilted gutter, and a segment along the right edge
\* of the corner panels
GroupSegmentSets ==
    {{}, {Segment(6, 0, 6, 12)}, {Segment(0, 6, 12, 6)}, {Segment(6, 2, 6, 3)},
     {Segment(0, 0, 12, 12)}, {Segment(6, 0, 7, 5)}, {Segment(5, 5, 5, 12)},
     {Segment(6, 7, 6, 12), Segment(6, 0, 6, 1)}}

\* detect_panels builds the panels from polygons when big panel grouping is on
GroupBigInit ==
    /\ conf = Config(PageSide, PageSide, 1, 4, TRUE)
    /\ \E rects \in SeqsUpTo(RectSet, MaxPanels) :
          panels_in = [k \in 1..Len(rects) |-> InitialPanel(rects[k], conf.poly)]
    /\ panels_out = panels_in
    /\ stage = "group_big"
    /\ flags = [NoFlags EXCEPT !.big_grouping = TRUE]
    /\ segments \in GroupSegmentSets
    /\ steps = 0
    /\ OrdIdle
    /\ DetIdle

\* One pass of `while grouped`: the first pair of the two loops that can be
\* grouped is replaced by its union and the loops are left
GroupBigAccept ==
    /\ stage = "group_big"
    /\ group_pairs(panels_out, segments) # {}
    /\ panels_out' = group_first_pair(panels_out, SetMin(group_pairs(panels_out, segments)))
    /\ steps' = steps + 1
    /\ UNCHANGED stage

\* The pass in which no pair can be grouped: the loop ends, the list is returned
GroupBigReturn ==
    /\ stage = "group_big"
    /\ group_pairs(panels_out, segments) = {}
    /\ stage' = "group_big_returned"
    /\ UNCHANGED <<panels_out, steps>>

GroupBigNext ==
    /\ GroupBigAccept \/ GroupBigReturn
    /\ UNCHANGED <<ordVars, conf, panels_in, flags, segments, det, score,
                   geo, cache, http, gray_img, srv>>

SpecGroupBig == GroupBigInit /\ [][GroupBigNext]_vars

\* One call of expand_panels, side by side: step k handles side
\* ("x", "y", "r", "b")[k % 4] of panel k // 4
ExpandInit ==
    /\ conf = Config(PageSide, PageSide, 1, 4, FALSE)
    /\ \E rects \in SeqsUpTo(RectSet, MaxPanels) :
          panels_in = [k \in 1..Len(rects) |-> InitialPanel(rects[k], conf.poly)]
    /\ panels_out = panels_in
    /\ stage = "expand"
    /\ steps = 0
    /\ flags = [NoFlags EXCEPT !.expansion = TRUE]
    /\ segments = {}
    /\ OrdIdle
    /\ DetIdle

\* The body of `for d in ("x", "y", "r", "b")` for one panel and one side; the
\* gutters were computed from the list as it was handed in
ExpandSide ==
    /\ stage = "expand"
    /\ steps < 4 * Len(panels_out)
    /\ panels_out' = expand_step(panels_out, (steps \div 4) + 1,
                                 ExpandDirs[(steps % 4) + 1], actual_gutters(panels_in))
    /\ steps' = steps + 1
    /\ UNCHANGED stage

\* Both loops are done (at once for an empty list): return panels
ExpandReturn ==
    /\ stage = "expand"
    /\ steps >= 4 * Len(panels_out)
    /\ stage' = "expand_returned"
    /\ UNCHANGED <<panels_out, steps>>

ExpandNext ==
    /\ ExpandSide \/ ExpandReturn
    /\ UNCHANGED <<ordVars, conf, panels_in, flags, segments, det, score,
                   geo, cache, http, gray_img, srv>>

SpecExpand == ExpandInit /\ [][ExpandNext]_vars
----------------------------------------------------------------------------
\* detect_panels: the refinement stages in pipeline order

\* Bound of the pipeline inputs: the most contours of a page
MaxContours == 2

\* Bound of split_panels: the most splits of one run
MaxSplits == 1

\* Page size of the pipeline inputs
PipeSide == 24

\* The bounding rectangles (x, y, r, b) of the contours: the full page and a
\* contour one pixel short of it, the halves and two quarters of the page
\* apart by a gutter of two pixels, and two small contours next to each other
PipeRectSet ==
    {<<0, 0, 24, 24>>, <<1, 0, 24, 24>>,
     <<0, 0, 11, 24>>, <<13, 0, 24, 24>>,
     <<0, 0, 11, 11>>, <<0, 13, 11, 24>>,
     <<0, 0, 5, 11>>, <<6, 0, 11, 11>>}

\* min_panel_ratio, as <<numerator, denominator>>; CVDetector.__init__ and
\* detect_panels take the value as it is given, 0 included
PipeRatios == {<<0, 1>>, <<1, 4>>, <<1, 2>>, <<1, 1>>}

\* What detect_segments may find: nothing, or the gutter down the middle
PipeSegmentSets == {{}, {Segment(12, 0, 12, 24)}}

\* initial_panels: one panel per contour, very small ones dropped
initial_panels(rects, c) ==
    SelectSeq([k \in 1..Len(rects) |-> InitialPanel(rects[k], c.poly)],
              LAMBDA p : ~is_very_small(p, c))

\* use_polygon = panel_splitting or big_panel_grouping; the segments are
\* detected only when splitting or big panel grouping is on
PipeInit ==
    /\ flags \in [expansion : BOOLEAN, small_grouping : BOOLEAN,
                  big_grouping : BOOLEAN, splitting : BOOLEAN]
    /\ \E ratio \in PipeRatios :
          conf = Config(PipeSide, PipeSide, ratio[1], ratio[2],
                        flags.splitting \/ flags.big_grouping)
    /\ segments \in (IF flags.splitting \/ flags.big_grouping
                     THEN PipeSegmentSets ELSE {{}})
    /\ \E rects \in SeqsUpTo(PipeRectSet, MaxContours) :
          panels_in = initial_panels(rects, conf)
    /\ panels_out = panels_in
    /\ stage = "initial"
    /\ OrdIdle
    /\ DetIdle

PipeGroupSmall ==
    /\ stage = "initial"
    /\ panels_out' = IF flags.small_grouping
                     THEN group_small_panels(panels_out, conf) ELSE panels_out
    /\ stage' = "grouped_small"

PipeSplit ==
    /\ stage = "grouped_small"
    /\ panels_out' \in (IF flags.splitting
                        THEN split_panels_results(panels_out, conf, segments, MaxSplits)
                        ELSE {panels_out})
    /\ stage' = "split"

\* The refinement with deoverlap_panels run whether or not the panels were split
refine_deoverlap_always(ps, c, splitting) ==
    IF splitting
    THEN {exclude_small(deoverlap_panels(m), c) :
             m \in merge_panels_results(exclude_small(ps, c))}
    ELSE {deoverlap_panels(exclude_small(ps, c))}

\* Step 8 of detect_panels: exclude_small; with splitting also merge_panels,
\* deoverlap_panels and exclude_small again
refine(ps, c, splitting) ==
    IF splitting
    THEN {exclude_small(deoverlap_panels(m), c) :
             m \in merge_panels_results(exclude_small(ps, c))}
    ELSE {exclude_small(ps, c)}

PipeRefine ==
    /\ stage = "split"
    /\ panels_out' \in refine(panels_out, conf, flags.splitting)
    /\ stage' = "refined"

PipeExpand ==
    /\ stage = "refined"
    /\ panels_out' = IF flags.expansion THEN expand_panels(panels_out) ELSE panels_out
    /\ stage' = "expanded"

\* Fallback: an empty working set receives the full page as its only panel
PipeFallback ==
    /\ stage = "expanded"
    /\ panels_out' = IF panels_out = <<>>
                     THEN <<from_xywh(0, 0, conf.W, conf.H)>> ELSE panels_out
    /\ stage' = "fallback"

PipeGroupBig ==
    /\ stage = "fallback"
    /\ panels_out' = IF flags.big_grouping
                     THEN group_big_panels(panels_out, segments) ELSE panels_out
    /\ stage' = "grouped_big"

\* Final cleanup, then detect_panels returns the working set
PipeRemoveContained ==
    /\ stage = "grouped_big"
    /\ panels_out' = remove_contained_panels(panels_out)
    /\ stage' = "returned"

PipeNext ==
    /\ \/ PipeGroupSmall \/ PipeSplit \/ PipeRefine \/ PipeExpand
       \/ PipeFallback \/ PipeGroupBig \/ PipeRemoveContained
    /\ UNCHANGED <<ordVars, conf, panels_in, flags, segments, det, score, sideVars>>

SpecPipe == PipeInit /\ [][PipeNext]_vars

\* One call of split_panels, panel by panel. The page is the pipeline's, the
\* working set comes from group_small_panels, the segments are the gutters
\* down and across the middle of the page
SplitSegmentSets ==
    {{}, {Segment(12, 0, 12, 24)},
     {Segment(12, 0, 12, 24), Segment(0, 12, 24, 12)}}

\* The contours of the split inputs: the page, its halves apart by a gutter
\* and two small contours next to each other
SplitRectSet ==
    {<<0, 0, 24, 24>>, <<0, 0, 11, 24>>, <<13, 0, 24, 24>>,
     <<0, 0, 5, 11>>, <<6, 0, 11, 11>>}

\* The lines of the page along which the image may be uneven: the cut down
\* the middle of the page and the cut across its left half
SplitLines == {Segment(12, 0, 12, 24), Segment(0, 12, 12, 12)}

\* gray: None, or an image given by the lines whose variance is above 400
SplitGrayImages == {<<>>} \cup {<<noisy>> : noisy \in SUBSET SplitLines}

\* _is_gutter_line, with the test `gray is not None` that precedes it
is_gutter_line(g, s) == IF g = <<>> THEN TRUE ELSE s \notin g[1]

\* The position in ps of the k-th panel of sorted(panels, key=area,
\* reverse=True): panels of equal area keep their order
area_rank(ps, i) ==
    1 + Cardinality({j \in 1..Len(ps) :
                        \/ area(ps[j]) > area(ps[i])
                        \/ area(ps[j]) = area(ps[i]) /\ j < i})

sorted_pos(ps, k) == CHOOSE i \in 1..Len(ps) : area_rank(ps, i) = k

\* The splits p.split(segments) may return (none when the set is empty)
split_of(p, c, segs) == IF can_split(p, c) THEN subpanels(p, c, segs) ELSE {}

\* A variant of split() that leaves the panel splittable when it finds no split
split_none_unmarked(p) == [p EXCEPT !.spl = TRUE]

\* split() returning None: `if split_result is None: self.splittable = False`;
\* a panel that was not splittable returns None at once and stays so
split_none(p) == [p EXCEPT !.spl = FALSE]

SplitInit ==
    /\ flags \in {[NoFlags EXCEPT !.splitting = TRUE],
                  [NoFlags EXCEPT !.splitting = TRUE, !.small_grouping = TRUE]}
    /\ conf = Config(PipeSide, PipeSide, 1, 4, TRUE)
    /\ segments \in SplitSegmentSets
    /\ gray_img \in SplitGrayImages
    /\ \E rects \in SeqsUpTo(SplitRectSet, MaxContours) :
          panels_in = IF flags.small_grouping
                      THEN group_small_panels(initial_panels(rects, conf), conf)
                      ELSE initial_panels(rects, conf)
    /\ panels_out = panels_in
    /\ stage = "split"
    /\ steps = 0
    /\ OrdIdle
    /\ det = [pc |-> "idle"]
    /\ score = [pc |-> "idle"]
    /\ GeoIdle /\ CacheIdle /\ HttpIdle /\ SrvIdle

\* split = p.split(segments) is None: a splittable panel without a split is
\* marked, an unsplittable one is left as it is; the loop goes on
SplitNone ==
    /\ stage = "split"
    /\ steps < Len(panels_out)
    /\ split_of(panels_out[sorted_pos(panels_out, steps + 1)], conf, segments) = {}
    /\ panels_out' = [panels_out EXCEPT ![sorted_pos(panels_out, steps + 1)] =
                                            split_none(@)]
    /\ steps' = steps + 1
    /\ UNCHANGED stage

\* The split is refused by the gutter check: continue
SplitRejected ==
    /\ stage = "split"
    /\ steps < Len(panels_out)
    /\ \E sub \in split_of(panels_out[sorted_pos(panels_out, steps + 1)], conf, segments) :
          ~is_gutter_line(gray_img, split_segment(panels_out[sorted_pos(panels_out, steps + 1)], sub))
    /\ steps' = steps + 1
    /\ UNCHANGED <<panels_out, stage>>

\* The split is applied: panels.remove(p); panels += split.subpanels; break,
\* and the next pass starts with a fresh sorted list
SplitAccepted ==
    /\ stage = "split"
    /\ steps < Len(panels_out)
    /\ \E sub \in split_of(panels_out[sorted_pos(panels_out, steps + 1)], conf, segments) :
          /\ is_gutter_line(gray_img, split_segment(panels_out[sorted_pos(panels_out, steps + 1)], sub))
          /\ panels_out' = RemoveFirstEq(panels_out, panels_out[sorted_pos(panels_out, steps + 1)]) \o sub
    /\ steps' = 0
    /\ UNCHANGED stage

\* The for loop ran through the whole list with did_split = False
SplitReturn ==
    /\ stage = "split"
    /\ steps = Len(panels_out)
    /\ stage' = "split_returned"
    /\ UNCHANGED <<panels_out, steps>>

SplitNext ==
    /\ SplitNone \/ SplitRejected \/ SplitAccepted \/ SplitReturn
    /\ UNCHANGED <<ordVars, conf, panels_in, flags, segments, det, score,
                   geo, cache, http, gray_img, srv>>

SpecSplit == SplitInit /\ [][SplitNext]_vars

\* The bboxes the inputs are drawn from, on a 3 x 3 page: the corner cells and
\* the centre cell, the bars along the top and left edges, and the horizontal
\* and vertical bars through the centre (which cross each other and overlap or
\* touch every cell)
OrdBoxSet ==
    {<<0, 0, 1, 1>>, <<2, 0, 1, 1>>, <<0, 2, 1, 1>>, <<2, 2, 1, 1>>,
     <<1, 1, 1, 1>>,
     <<0, 0, 3, 1>>, <<0, 0, 1, 3>>,
     <<0, 1, 3, 1>>, <<1, 0, 1, 3>>}

\* Two pages of the test suite: a row of two panels given right panel first,
\* and a row of two panels above a third panel
OrdRowPages ==
    {<<<<300, 100, 200, 200>>, <<50, 100, 200, 200>>>>,
     <<<<50, 10, 100, 100>>, <<200, 10, 100, 100>>, <<100, 200, 100, 100>>>>}

OrdInit ==
    /\ bboxes \in SeqsUpTo(OrdBoxSet, MaxBoxes) \cup OrdRowPages
    /\ direction \in {"ltr", "rtl"}
    /\ indices = <<>>
    /\ iteration = 0
    /\ moved = 0
    /\ opc = "call"
    /\ page_order = <<>>
    /\ StageIdle

\* order_panels up to the while loop: the early returns and the initial sort
OrderStart ==
    /\ opc = "call"
    /\ IF Len(bboxes) = 0
       THEN indices' = <<>> /\ opc' = "returned"
       ELSE IF Len(bboxes) = 1
       THEN indices' = <<0>> /\ opc' = "returned"
       ELSE indices' = initial_order(bboxes, direction) /\ opc' = "loop"
    /\ UNCHANGED <<bboxes, direction, iteration, moved, page_order>>

\* A bound that grows with the cube of the number of bboxes
max_iterations_cubed(bbs) == Len(bbs) * Len(bbs) * Len(bbs)

\* max_iterations = len(bboxes) * len(bboxes)
max_iterations(bbs) == Len(bbs) * Len(bbs)

\* One iteration of `while iteration < max_iterations`
RepairPass ==
    /\ opc = "loop"
    /\ iteration < max_iterations(bboxes)
    /\ indices' = repair_pass(indices, bboxes, direction)
    /\ moved' = IF first_bad_pos(indices, bboxes, direction) # 0 THEN 1 ELSE 0
    /\ opc' = IF first_bad_pos(indices, bboxes, direction) # 0
              THEN "loop" ELSE "returned"
    /\ iteration' = iteration + 1
    /\ UNCHANGED <<bboxes, direction, page_order>>

\* The while condition fails: max_iterations passes were made
RepairExhausted ==
    /\ opc = "loop"
    /\ iteration >= max_iterations(bboxes)
    /\ opc' = "returned"
    /\ UNCHANGED <<bboxes, direction, indices, iteration, moved, page_order>>

\* process: order=[result.panels[idx].id for idx in ordered_indices]
BuildPage ==
    /\ opc = "returned"
    /\ page_order' = [k \in 1..Len(indices) |-> PanelId(indices[k])]
    /\ opc' = "paged"
    /\ UNCHANGED <<bboxes, direction, indices, iteration, moved>>

OrdNext ==
    /\ OrderStart \/ RepairPass \/ RepairExhausted \/ BuildPage
    /\ UNCHANGED <<stageVars, pipeVars, det, score, sideVars>>

SpecOrder == OrdInit /\ [][OrdNext]_vars

----------------------------------------------------------------------------
\* CVDetector.detect: downscaling, clamping and rescaling (panelizer/cv/detector.py)

\* Bound of the detector inputs: the longest image side
MaxSide == 4

\* _clamp_bbox_xywh: the bbox <<x, y, w, h>> moved and cut to fit the image
clamp_x(x, img_w) == Max2(0, Min2(x, img_w - 1))

clamp_w(bw) == IF bw <= 0 THEN 1 ELSE bw

\* Mutant of _clamp_bbox_xywh: the width and height are not cut to the image
clamp_bbox_xywh_uncut(bbox, img_w, img_h) ==
    IF img_w <= 0 \/ img_h <= 0 THEN <<0, 0, 0, 0>>
    ELSE <<clamp_x(bbox[1], img_w), clamp_x(bbox[2], img_h),
           clamp_w(bbox[3]), clamp_w(bbox[4])>>

clamp_bbox_xywh(bbox, img_w, img_h) ==
    IF img_w <= 0 \/ img_h <= 0 THEN <<0, 0, 0, 0>>
    ELSE <<clamp_x(bbox[1], img_w), clamp_x(bbox[2], img_h),
           Min2(clamp_w(bbox[3]), img_w - clamp_x(bbox[1], img_w)),
           Min2(clamp_w(bbox[4]), img_h - clamp_x(bbox[2], img_h))>>

\* int() of a float product or quotient whose exact value is a / b, a >= 0,
\* b > 0: the floor of a / b; when a / b is a whole number other than 0 the
\* float may fall just short of it, and int() then yields one less
int_of_quotient(a, b) ==
    IF a % b = 0 /\ a > 0 THEN {a \div b, (a \div b) - 1} ELSE {a \div b}

\* scale = max_dimension / max_dim applies when 0 < max_dimension < max_dim
downscales(d) == d.M > 0 /\ Max2(d.W, d.H) > d.M

\* new_w = int(orig_w * scale)
scaled_side(side, d) == int_of_quotient(side * d.M, Max2(d.W, d.H))

\* scale_bbox: int(v / scale) for each of the four values; the identity when
\* scale == 1.0
scaled_back(v, d) ==
    IF d.scaled THEN int_of_quotient(v * Max2(d.W, d.H), d.M) ELSE {v}

scale_bbox(bbox, d) ==
    scaled_back(bbox[1], d) \X scaled_back(bbox[2], d)
        \X scaled_back(bbox[3], d) \X scaled_back(bbox[4], d)

\* The values p.to_xywh() of an internal panel may hold: negative, zero, and
\* beyond the image
PanelCoords == {-1, 0, 2, MaxSide + 1}

PanelSizes == {-1, 0, 1, 3, MaxSide + 2}

DetInit ==
    /\ \E dw, dh \in 1..MaxSide : \E M \in 0..MaxSide :
       \E bbox \in PanelCoords \X PanelCoords \X PanelSizes \X PanelSizes :
          det = [pc |-> "call", W |-> dw, H |-> dh, M |-> M, bbox |-> bbox,
                 img_w |-> dw, img_h |-> dh, scaled |-> FALSE, out |-> <<>>]
    /\ OrdIdle
    /\ conf = Config(0, 0, 1, 1, FALSE)
    /\ panels_in = <<>>
    /\ panels_out = <<>>
    /\ stage = "idle"
    /\ flags = NoFlags
    /\ segments = {}
    /\ ScoreIdle

\* image.resize((new_w, new_h)) when the image exceeds max_dimension; PIL
\* refuses a side of 0 with a ValueError, detect then returns nothing
DetResizeTo(nw, nh) ==
    IF nw <= 0 \/ nh <= 0
    THEN det' = [det EXCEPT !.pc = "error"]
    ELSE det' = [det EXCEPT !.pc = "resized", !.img_w = nw, !.img_h = nh,
                            !.scaled = TRUE]

DetResize ==
    /\ det.pc = "call"
    /\ IF downscales(det)
       THEN \E nw \in scaled_side(det.W, det) : \E nh \in scaled_side(det.H, det) :
               DetResizeTo(nw, nh)
       ELSE det' = [det EXCEPT !.pc = "resized"]

\* x, y, w, h = _clamp_bbox_xywh(p.to_xywh(), img_w=img_w, img_h=img_h), then
\* scale_bbox(x, y, w, h) and Panel(bbox=(x, y, w, h))
DetEmit ==
    /\ det.pc = "resized"
    /\ \E out \in scale_bbox(clamp_bbox_xywh(det.bbox, det.img_w, det.img_h), det) :
          det' = [det EXCEPT !.pc = "returned", !.out = out]

DetNext ==
    /\ DetResize \/ DetEmit
    /\ UNCHANGED <<ordVars, stageVars, pipeVars, score, sideVars>>

SpecDetect == DetInit /\ [][DetNext]_vars

----------------------------------------------------------------------------
\* Confidence scoring (confidence.py).  A score is held in hundredths: 100 is
\* 1.0.  A quotient n / d of integers is kept as the pair (n, d) with d > 0
\* and compared exactly; only the returned score is rounded down.

RatNum(n, d) == IF d < 0 THEN 0 - n ELSE n

\* _aspect_ratio_score for aspect = n / d, d > 0
aspect_score_of(n, d) ==
    IF 4 * d <= 10 * n /\ 10 * n <= 25 * d THEN 100
    ELSE IF 2 * d <= 10 * n /\ 10 * n < 4 * d
    THEN 60 + (40 * (10 * n - 2 * d)) \div (2 * d)
    ELSE IF 25 * d < 10 * n /\ n <= 5 * d
    THEN 60 + (400 * (5 * d - n)) \div (25 * d)
    ELSE IF 10 * n < 2 * d THEN Max2(20, (300 * n) \div d)
    ELSE Max2(20, (300 * d) \div n)

aspect_ratio_score(p) ==
    IF h(p) = 0 \/ w(p) = 0 THEN 20
    ELSE aspect_score_of(RatNum(w(p), h(p)), Abs(h(p)))

\* _size_score for area_ratio = n / d, d > 0
size_score_of(n, d) ==
    IF 5 * d <= 100 * n /\ 100 * n <= 50 * d THEN 100
    ELSE IF 100 * n < 5 * d
    THEN IF 100 * n >= 3 * d THEN 70 + (30 * (100 * n - 3 * d)) \div (2 * d)
         ELSE IF 100 * n >= d THEN 40 + (30 * (100 * n - d)) \div (2 * d)
         ELSE Max2(20, (4000 * n) \div d)
    ELSE IF 100 * n <= 70 * d THEN 70 + (30 * (70 * d - 100 * n)) \div (20 * d)
    ELSE IF 100 * n <= 90 * d THEN 40 + (30 * (90 * d - 100 * n)) \div (20 * d)
    ELSE 40

size_score(p, page_area) ==
    IF page_area = 0 THEN 50
    ELSE size_score_of(RatNum(area(p), page_area), Abs(page_area))

\* _rectangularity_score for a polygon of area poly_area =
\* cv.contourArea(panel.polygon)
polygon_score(p, poly_area) ==
    IF poly_area <= 0 THEN 50
    ELSE IF area(p) <= 0 THEN 50
    ELSE IF 100 * poly_area >= 90 * area(p) THEN 100
    ELSE IF 100 * poly_area >= 75 * area(p)
    THEN 70 + (30 * (100 * poly_area - 75 * area(p))) \div (15 * area(p))
    ELSE IF 100 * poly_area >= 50 * area(p)
    THEN 40 + (30 * (100 * poly_area - 50 * area(p))) \div (25 * area(p))
    ELSE Max2(20, (80 * poly_area) \div area(p))

\* _rectangularity_score; an optional value is a list, <<>> for None and
\* <<v>> for the value v: polygon is <<>> or <<its area>>
rectangularity_score(p, polygon) ==
    IF polygon = <<>> THEN 90 ELSE polygon_score(p, polygon[1])

\* _gap_score for gap_ratio = n / d, d > 0
gap_score_of(n, d) ==
    IF n < 0 THEN Max2(10, 50 + (500 * n) \div d)
    ELSE IF 1000 * n < 5 * d THEN 70 + (6000 * n) \div d
    ELSE IF 100 * n <= 5 * d THEN 100
    ELSE IF 100 * n <= 10 * d THEN 70 + (30 * (10 * d - 100 * n)) \div (5 * d)
    ELSE Max2(30, (7 * d) \div n)

gap_score(gap, dimension) ==
    IF dimension = 0 THEN 50
    ELSE gap_score_of(RatNum(gap, dimension), Abs(dimension))

\* the neighbor_scores of _gutter_quality_score, in the order left, right,
\* top, bottom
neighbor_scores(ps, i, c) ==
    (IF find_left_panel(ps, i) # 0
     THEN <<gap_score(ps[i].x - ps[find_left_panel(ps, i)].r, c.W)>> ELSE <<>>)
    \o (IF find_right_panel(ps, i) # 0
        THEN <<gap_score(ps[find_right_panel(ps, i)].x - ps[i].r, c.W)>>
        ELSE <<>>)
    \o (IF panel_find_top_panel(ps, i) # 0
        THEN <<gap_score(ps[i].y - ps[panel_find_top_panel(ps, i)].b, c.H)>>
        ELSE <<>>)
    \o (IF find_bottom_panel(ps, i) # 0
        THEN <<gap_score(ps[find_bottom_panel(ps, i)].y - ps[i].b, c.H)>>
        ELSE <<>>)

SeqMean(s) == SeqSum(s) \div Len(s)

gutter_quality_score(ps, i, c) ==
    IF Len(ps) <= 1 THEN 70
    ELSE IF neighbor_scores(ps, i, c) = <<>> THEN 75
    ELSE SeqMean(neighbor_scores(ps, i, c))

\* variance_to_score inside _gutter_color_score
variance_to_score(v) ==
    IF v <= 100 THEN 100
    ELSE IF v >= 600 THEN 20
    ELSE 100 - (80 * (v - 100)) \div 500

\* the edges of the panel that do not bleed off the gray image, in the order
\* top (1), bottom (2), left (3), right (4)
sampled_edges(p, c) ==
    (IF p.y > 2 THEN <<1>> ELSE <<>>)
    \o (IF p.y + h(p) < c.H - 2 THEN <<2>> ELSE <<>>)
    \o (IF p.x > 2 THEN <<3>> ELSE <<>>)
    \o (IF p.x + w(p) < c.W - 2 THEN <<4>> ELSE <<>>)

\* _gutter_color_score; var[e] is compute_line_variance along edge e
gutter_color_score(p, c, var) ==
    IF sampled_edges(p, c) = <<>> THEN 80
    ELSE SeqMean([k \in 1..Len(sampled_edges(p, c)) |->
                    variance_to_score(var[sampled_edges(p, c)[k]])])

\* compute_edge_strength: 0.8 when no border is sampled, else the score of
\* the average gradient magnitude avg along the sampled borders
compute_edge_strength(p, c, avg) ==
    IF sampled_edges(p, c) = <<>> THEN 80
    ELSE IF avg >= 100 THEN 100
    ELSE IF avg >= 50 THEN 70 + (30 * (avg - 50)) \div 50
    ELSE IF avg >= 20 THEN 40 + (30 * (avg - 20)) \div 30
    ELSE Max2(20, 2 * avg)

\* the list scores of compute_panel_confidence: pairs (score, weight), the
\* weight in tenths; gray is <<>> for None, else the four edge variances
panel_scores(ps, i, c, page_area, polygon, gray, split_coverage, edge_strength) ==
    <<<<aspect_ratio_score(ps[i]), 10>>,
      <<size_score(ps[i], page_area), 10>>,
      <<rectangularity_score(ps[i], polygon), 8>>,
      <<gutter_quality_score(ps, i, c), 12>>>>
    \o (IF gray # <<>>
        THEN <<<<gutter_color_score(ps[i], c, gray), 15>>>> ELSE <<>>)
    \o (IF split_coverage # <<>> THEN <<<<split_coverage[1], 5>>>> ELSE <<>>)
    \o (IF edge_strength # <<>> THEN <<<<edge_strength[1], 10>>>> ELSE <<>>)

total_weight(scores) == SeqSum([k \in 1..Len(scores) |-> scores[k][2]])

weighted_sum(scores) ==
    SeqSum([k \in 1..Len(scores) |-> scores[k][1] * scores[k][2]])

\* confidence = weighted_sum / total_weight if total_weight > 0 else 0.5
weighted_average(scores) ==
    IF total_weight(scores) > 0
    THEN weighted_sum(scores) \div total_weight(scores)
    ELSE 50

compute_panel_confidence_unclamped(ps, i, c, page_area, polygon, gray, split_coverage, edge_strength) ==
    weighted_average(panel_scores(ps, i, c, page_area, polygon, gray,
                                  split_coverage, edge_strength))

compute_panel_confidence(ps, i, c, page_area, polygon, gray, split_coverage, edge_strength) ==
    Max2(0, Min2(100,
        weighted_average(panel_scores(ps, i, c, page_area, polygon, gray,
                                      split_coverage, edge_strength))))

\* all_gutters of _compute_gutter_variance_score: a list that is None adds
\* nothing, as an empty one, and is written <<>>
all_gutters(gx, gy) == gx \o gy

positive_gutters(gs) == SelectSeq(gs, LAMBDA g : g > 0)

SumOfSquares(s) == SeqSum([k \in 1..Len(s) |-> s[k] * s[k]])

\* cv = stdev / mean of the list pg, as the fraction cv^2 = cv_num / cv_den:
\* stdev^2 = (S2 - S1^2 / n) / (n - 1) and mean = S1 / n
cv_num(pg) == Len(pg) * (Len(pg) * SumOfSquares(pg) - SeqSum(pg) * SeqSum(pg))

cv_den(pg) == (Len(pg) - 1) * SeqSum(pg) * SeqSum(pg)

\* the score of a coefficient of variation with cv^2 = a / b, b > 0
cv_score(a, b) ==
    IF 100 * a < 9 * b THEN 100
    ELSE IF 100 * a < 36 * b
    THEN SetMax({v \in 70..100 : (130 - v) * (130 - v) * b >= 10000 * a})
    ELSE Max2(40, SetMax({s \in 0..70 : s * s * a <= 1764 * b}))

compute_gutter_variance_score(gx, gy) ==
    IF Len(all_gutters(gx, gy)) < 2 THEN 85
    ELSE IF Len(positive_gutters(all_gutters(gx, gy))) < 2 THEN 70
    ELSE IF SeqSum(positive_gutters(all_gutters(gx, gy))) = 0 THEN 80
    ELSE cv_score(cv_num(positive_gutters(all_gutters(gx, gy))),
                  cv_den(positive_gutters(all_gutters(gx, gy))))

\* weighted_conf: the area-weighted mean when total_area > 0, else the mean;
\* in units of 10^-4, the fourth root magnifying what is lost near 0
weighted_conf(confs, areas) ==
    IF SeqSum(areas) > 0
    THEN (100 * SeqSum([k \in 1..Len(confs) |-> confs[k] * areas[k]]))
         \div SeqSum(areas)
    ELSE (100 * SeqSum(confs)) \div Len(confs)

panel_count_factor(n) ==
    IF 2 <= n /\ n <= 12 THEN 100
    ELSE IF n = 1 THEN 70
    ELSE IF n = 0 THEN 10
    ELSE 50

coverage_factor(total_area, page_area) ==
    IF page_area <= 0 THEN 80
    ELSE IF 70 * page_area <= 100 * total_area /\ 100 * total_area <= 95 * page_area
    THEN 100
    ELSE IF 50 * page_area <= 100 * total_area /\ 100 * total_area < 70 * page_area
    THEN 70 + (30 * (100 * total_area - 50 * page_area)) \div (20 * page_area)
    ELSE IF 100 * total_area > 95 * page_area THEN 80
    ELSE Max2(40, (140 * total_area) \div page_area)

\* the product under the fourth root, in units of 10^-4
combined_product(confs, areas, page_area, gx, gy) ==
    (((((weighted_conf(confs, areas) * panel_count_factor(Len(confs))) \div 100)
        * coverage_factor(SeqSum(areas), page_area)) \div 100)
      * compute_gutter_variance_score(gx, gy)) \div 100

\* x ** (1 / 4) for x >= 0 in units of 10^-4, rounded down to hundredths;
\* a product beyond 16 counts as 16, with root 2.0
fourth_root(x) ==
    SetMax({r \in 0..200 : r * r * r * r <= 10000 * Min2(x, 160000)})

\* compute_page_confidence.  A negative product has a complex fourth root,
\* which min(1.0, combined) cannot compare: the call raises TypeError and
\* returns nothing (<<>>); a returned value v is <<v>>.
compute_page_confidence(confs, areas, page_area, gx, gy) ==
    IF Len(confs) = 0 THEN <<10>>
    ELSE IF combined_product(confs, areas, page_area, gx, gy) < 0 THEN <<>>
    ELSE <<Max2(0, Min2(100,
            fourth_root(combined_product(confs, areas, page_area, gx, gy))))>>

\* ---- the scoring calls ----

\* largest number of panels in all_panels
MaxScored == 2

\* largest length of one gutter list
MaxGutters == 2

\* side of the square page the scored panels lie on
ScoreSide == 40

\* x, y, r, b: the full page, two columns one pixel apart, a right column
\* four pixels away, a thin strip, a wide panel above a stacked one, and a
\* narrow panel
ScoreRects ==
    {<<0, 0, 40, 40>>, <<3, 3, 19, 37>>, <<20, 3, 37, 37>>, <<23, 3, 37, 20>>,
     <<3, 3, 37, 5>>, <<3, 3, 37, 12>>, <<3, 20, 19, 37>>, <<3, 3, 5, 12>>}

ScoreConfig == Config(ScoreSide, ScoreSide, 1, 4, FALSE)

ScorePanelLists ==
    {[k \in 1..Len(rects) |-> InitialPanel(rects[k], FALSE)] :
        rects \in SeqsUpTo(ScoreRects, MaxScored)}

\* optional floats: None, or a value in hundredths, also outside [0, 1]
SplitCoverages == {<<>>, <<60>>, <<300>>}

EdgeStrengths == {<<>>, <<-2000>>, <<300>>}

\* gray: None, or the pixel variances along the four edges
GrayImages ==
    {<<>>, <<0, 0, 0, 0>>, <<0, 900, 350, 200>>}

\* cv.contourArea of a panel's polygon: None, nothing, and tenths of the box
Polygons(p) == {<<>>, <<0>>} \cup {<<(k * area(p)) \div 10>> : k \in {3, 6, 8, 10}}

PageAreas == {0, ScoreSide * ScoreSide}

\* --- compute_panel_confidence(panel, all_panels, page_area, gray=...,
\*     split_coverage=..., edge_strength=...) ---
ScorePanelInit ==
    \E ps \in ScorePanelLists : \E i \in 1..Len(ps) : \E pa \in PageAreas :
    \E polygon \in Polygons(ps[i]) : \E gray \in GrayImages :
    \E sc \in SplitCoverages : \E es \in EdgeStrengths :
        score = [pc |-> "call", kind |-> "panel", ps |-> ps, i |-> i,
                 page_area |-> pa, polygon |-> polygon, gray |-> gray,
                 split_coverage |-> sc, edge_strength |-> es, out |-> <<>>]

ScorePanel ==
    /\ score.pc = "call"
    /\ score.kind = "panel"
    /\ score' = [score EXCEPT !.pc = "returned",
                    !.out = <<compute_panel_confidence(score.ps, score.i,
                                ScoreConfig, score.page_area, score.polygon,
                                score.gray, score.split_coverage,
                                score.edge_strength)>>]

\* --- compute_page_confidence(panel_confidences, panel_areas, page_area,
\*     gutters_x=..., gutters_y=...) ---

\* len(panel_confidences): none, a splash page, a healthy count, too many
PanelCounts == {0, 1, 2, 13}

\* the list of n values that starts with first and goes on with rest
ListOf(n, first, rest) == [k \in 1..n |-> IF k = 1 THEN first ELSE rest]

GutterWidths == {-1, 0, 2, 7}

ScorePageInit ==
    \E n \in PanelCounts : \E c1 \in {0, 100} : \E c2 \in {50, 100} :
    \E a1, a2 \in {-2, 0, 3, 500, 600} : \E pa \in PageAreas :
    \E gx \in SeqsUpTo(GutterWidths, MaxGutters) : \E gy \in {<<>>, <<3>>} :
        score = [pc |-> "call", kind |-> "page",
                 confs |-> ListOf(n, c1, c2), areas |-> ListOf(n, a1, a2),
                 page_area |-> pa, gx |-> gx, gy |-> gy, out |-> <<>>]

\* a call that raises returns nothing
ScorePage ==
    /\ score.pc = "call"
    /\ score.kind = "page"
    /\ score' = [score EXCEPT
                    !.pc = IF compute_page_confidence(score.confs, score.areas,
                                score.page_area, score.gx, score.gy) = <<>>
                           THEN "raised" ELSE "returned",
                    !.out = compute_page_confidence(score.confs, score.areas,
                                score.page_area, score.gx, score.gy)]

\* --- the scoring part of CVDetector.detect ---

\* collect_all_gutters: the gap of every panel to its left and to its top
\* neighbour, in the order of the panels
left_gutter_panels(ps) ==
    SelectSeq([k \in 1..Len(ps) |-> k], LAMBDA k : find_left_panel(ps, k) # 0)

top_gutter_panels(ps) ==
    SelectSeq([k \in 1..Len(ps) |-> k], LAMBDA k : panel_find_top_panel(ps, k) # 0)

collect_gutters_x(ps) ==
    [j \in 1..Len(left_gutter_panels(ps)) |->
        ps[left_gutter_panels(ps)[j]].x
        - ps[find_left_panel(ps, left_gutter_panels(ps)[j])].r]

collect_gutters_y(ps) ==
    [j \in 1..Len(top_gutter_panels(ps)) |->
        ps[top_gutter_panels(ps)[j]].y
        - ps[panel_find_top_panel(ps, top_gutter_panels(ps)[j])].b]

\* panel_areas = [p.bbox[2] * p.bbox[3] for p in panels], of the clamped boxes
bbox_areas(ps, c) ==
    [k \in 1..Len(ps) |->
        clamp_bbox_xywh(to_xywh(ps[k]), c.W, c.H)[3]
        * clamp_bbox_xywh(to_xywh(ps[k]), c.W, c.H)[4]]

\* the loop over internal_panels: edge strength from the gradient magnitude
\* avg, then compute_panel_confidence with gray and p.split_coverage
detect_panel_confidences(ps, c, polygon_tenths, gray, split_coverage, avg) ==
    [k \in 1..Len(ps) |->
        compute_panel_confidence(ps, k, c, c.W * c.H,
            IF polygon_tenths = 0 THEN <<>>
            ELSE <<(polygon_tenths * area(ps[k])) \div 10>>,
            gray, split_coverage, <<compute_edge_strength(ps[k], c, avg)>>)]

\* p.split_coverage is None or Split.segments_coverage(), the covered length
\* over the length of the split segment, which overlapping segments push
\* beyond 1
ScoreDetectInit ==
    \E ps \in ScorePanelLists : \E skip \in BOOLEAN :
    \E polygon_tenths \in {0, 8} : \E gray \in GrayImages \ {<<>>} :
    \E sc \in {<<>>, <<75>>, <<250>>} : \E avg \in {0, 35, 70, 120} :
        score = [pc |-> "call", kind |-> "detect", ps |-> ps,
                 skip_scoring |-> skip, polygon_tenths |-> polygon_tenths,
                 gray |-> gray, split_coverage |-> sc, avg |-> avg,
                 confs |-> <<>>, out |-> <<>>]

\* with skip_scoring every Panel gets confidence 1.0 and the DetectionResult
\* is returned with confidence 1.0
DetectScorePanels ==
    /\ score.pc = "call"
    /\ score.kind = "detect"
    /\ IF score.skip_scoring
       THEN score' = [score EXCEPT !.pc = "returned",
                         !.confs = [k \in 1..Len(score.ps) |-> 100],
                         !.out = <<100>>]
       ELSE score' = [score EXCEPT !.pc = "scored",
                         !.confs = detect_panel_confidences(score.ps,
                                      ScoreConfig, score.polygon_tenths,
                                      score.gray, score.split_coverage,
                                      score.avg)]

DetectScorePage ==
    /\ score.pc = "scored"
    /\ score' = [score EXCEPT
                    !.pc = IF compute_page_confidence(score.confs,
                                bbox_areas(score.ps, ScoreConfig),
                                ScoreConfig.W * ScoreConfig.H,
                                collect_gutters_x(score.ps),
                                collect_gutters_y(score.ps)) = <<>>
                           THEN "raised" ELSE "returned",
                    !.out = compute_page_confidence(score.confs,
                                bbox_areas(score.ps, ScoreConfig),
                                ScoreConfig.W * ScoreConfig.H,
                                collect_gutters_x(score.ps),
                                collect_gutters_y(score.ps))]

ScoreInit ==
    /\ ScorePanelInit \/ ScorePageInit \/ ScoreDetectInit
    /\ OrdIdle
    /\ conf = Config(0, 0, 1, 1, FALSE)
    /\ panels_in = <<>>
    /\ panels_out = <<>>
    /\ stage = "idle"
    /\ flags = NoFlags
    /\ segments = {}
    /\ det = [pc |-> "idle"]
    /\ SideIdle

ScoreNext ==
    /\ ScorePanel \/ ScorePage \/ DetectScorePanels \/ DetectScorePage
    /\ UNCHANGED <<ordVars, stageVars, pipeVars, det, sideVars>>

SpecScore == ScoreInit /\ [][ScoreNext]_vars

----------------------------------------------------------------------------
\* The LRU cache of the preview server: panelizer/preview/server.py

\* Threads using one cache, the largest maxsize, and the keys (page indices)
CacheThreads == 2

CacheSize == 2

CacheKeys == {1, 2, 3}

CacheValues == {"png_a", "png_b"}

\* The OrderedDict as a list of <<key, value>>, oldest first
od_keys(od) == {od[k][1] : k \in 1..Len(od)}

od_pos(od, key) == CHOOSE k \in 1..Len(od) : od[k][1] = key

\* self._cache[key]
od_value(od, key) == od[od_pos(od, key)][2]

\* self._cache.move_to_end(key)
move_to_end(od, key) ==
    SelectSeq(od, LAMBDA e : e[1] # key) \o <<od[od_pos(od, key)]>>

\* self._cache[key] = value: a key that is there keeps its place
od_assign(od, key, value) ==
    IF key \in od_keys(od)
    THEN [od EXCEPT ![od_pos(od, key)] = <<key, value>>]
    ELSE od \o <<<<key, value>>>>

popitem_last(od) == SubSeq(od, 1, Len(od) - 1)

\* self._cache.popitem(last=False)
popitem_first(od) == Tail(od)

ThreadIds == 1..CacheThreads

IdleThread == [pc |-> "idle", op |-> "none", key |-> 0, value |-> "", ret |-> <<>>]

\* LRUCache(maxsize): an empty OrderedDict and a free lock
CacheInit ==
    /\ \E maxsize \in 0..CacheSize :
          cache = [pc |-> "run", maxsize |-> maxsize, od |-> <<>>, lock |-> 0,
                   before |-> <<>>, th |-> [t \in ThreadIds |-> IdleThread]]
    /\ CoreIdle
    /\ GeoIdle
    /\ HttpIdle
    /\ SrvIdle

\* A thread calls get(key), set(key, value) or clear() and reaches the
\* "with self._lock" statement
CacheCall(t) ==
    /\ cache.th[t].pc = "idle"
    /\ \E op \in {"get", "set", "clear"}, key \in CacheKeys, value \in CacheValues :
          /\ op = "set" \/ value = "png_a"
          /\ op # "clear" \/ key = 1
          /\ cache' = [cache EXCEPT !.th[t] =
                 [pc |-> "with_lock", op |-> op, key |-> key, value |-> value,
                  ret |-> <<>>]]

\* with self._lock: the thread enters when no thread holds the lock
CacheAcquire(t) ==
    /\ cache.th[t].pc = "with_lock"
    /\ cache.lock = 0
    /\ cache' = [cache EXCEPT !.lock = t, !.before = cache.od,
                              !.th[t].pc = cache.th[t].op]

\* get: if key in self._cache: move_to_end, return the value; else None
CacheGet(t) ==
    /\ cache.th[t].pc = "get"
    /\ cache' = IF cache.th[t].key \in od_keys(cache.od)
                THEN [cache EXCEPT !.od = move_to_end(cache.od, cache.th[t].key),
                                   !.th[t].ret = <<od_value(cache.od, cache.th[t].key)>>,
                                   !.th[t].pc = "release"]
                ELSE [cache EXCEPT !.th[t].pc = "release"]

\* set: if key in self._cache: self._cache.move_to_end(key)
CacheSetMove(t) ==
    /\ cache.th[t].pc = "set"
    /\ cache' = [cache EXCEPT !.od = IF cache.th[t].key \in od_keys(cache.od)
                                     THEN move_to_end(cache.od, cache.th[t].key)
                                     ELSE cache.od,
                              !.th[t].pc = "assign"]

\* set: self._cache[key] = value
CacheSetAssign(t) ==
    /\ cache.th[t].pc = "assign"
    /\ cache' = [cache EXCEPT !.od = od_assign(cache.od, cache.th[t].key, cache.th[t].value),
                              !.th[t].pc = "evict"]

\* set: while len(self._cache) > self._maxsize: popitem(last=False)
CacheSetEvict(t) ==
    /\ cache.th[t].pc = "evict"
    /\ cache' = IF Len(cache.od) > cache.maxsize
                THEN [cache EXCEPT !.od = popitem_first(cache.od)]
                ELSE [cache EXCEPT !.th[t].pc = "release"]

\* clear: self._cache.clear()
CacheClear(t) ==
    /\ cache.th[t].pc = "clear"
    /\ cache' = [cache EXCEPT !.od = <<>>, !.th[t].pc = "release"]

\* The with block ends: the lock is released and the call returns
CacheRelease(t) ==
    /\ cache.th[t].pc = "release"
    /\ cache' = [cache EXCEPT !.lock = 0, !.before = <<>>, !.th[t] = IdleThread]

CacheNext ==
    /\ \E t \in ThreadIds :
          \/ CacheCall(t) \/ CacheAcquire(t) \/ CacheGet(t) \/ CacheSetMove(t)
          \/ CacheSetAssign(t) \/ CacheSetEvict(t) \/ CacheClear(t)
          \/ CacheRelease(t)
    /\ UNCHANGED <<ordVars, stageVars, pipeVars, det, score, geo, http, steps, gray_img, srv>>

SpecCache == CacheInit /\ [][CacheNext]_vars

----------------------------------------------------------------------------
\* Calls of Segment.intersect, Segment.union and Segment.union_all

\* The longest list handed to union_all
MaxSegments == 3

\* Endpoints along a row and along a column (two lines one pixel apart),
\* along the diagonal and along the anti-diagonal
RowDots == {0, 5, 7, 10, 13, 15, 20} \X {0, 1}

ColDots == {0, 1} \X {0, 5, 7, 10, 13, 15, 20}

DiagDots == {<<0, 0>>, <<5, 5>>, <<10, 10>>, <<15, 15>>}

AntiDots == {<<0, 20>>, <<5, 15>>, <<10, 10>>, <<15, 5>>, <<20, 0>>}

SegmentsOver(dots) == {Segment(c[1], c[2], d[1], d[2]) : c \in dots, d \in dots}

\* The pairs handed to intersect and union: both segments from one family
SegmentPairs ==
    UNION {SegmentsOver(dots) \X SegmentsOver(dots) :
              dots \in {RowDots, ColDots, DiagDots, AntiDots}}

\* The segments of the lists handed to union_all
ListSegments ==
    {Segment(0, 0, 10, 0), Segment(5, 0, 15, 0), Segment(12, 0, 20, 0),
     Segment(0, 0, 20, 0), Segment(7, 0, 13, 1), Segment(15, 0, 5, 0),
     Segment(0, 5, 0, 15), Segment(0, 20, 20, 0), Segment(15, 5, 5, 15)}

SegmentInit ==
    /\ \/ \E pair \in SegmentPairs :
             geo = [pc |-> "pair", a |-> pair[1], b |-> pair[2]]
       \/ \E list \in SeqsUpTo(ListSegments, MaxSegments) :
             geo = [pc |-> "list", input |-> list, segs |-> list, passes |-> 0]
    /\ CoreIdle
    /\ CacheIdle
    /\ HttpIdle
    /\ SrvIdle

\* a.intersect(b) and b.intersect(a)
SegIntersect ==
    /\ geo.pc = "pair"
    /\ geo' = [pc |-> "intersected", a |-> geo.a, b |-> geo.b,
               ab |-> intersect(geo.a, geo.b), ba |-> intersect(geo.b, geo.a)]

\* a.union(b)
SegUnion ==
    /\ geo.pc = "intersected"
    /\ geo' = [pc |-> "unioned", a |-> geo.a, b |-> geo.b,
               ab |-> geo.ab, ba |-> geo.ba, u |-> union(geo.a, geo.b)]

\* union_all, one pass of "while unioned_segments"; the loop ends, and
\* dedup_segments is returned, after a pass that unioned nothing
SegUnionPass ==
    /\ geo.pc = "list"
    /\ geo' = [geo EXCEPT
                 !.segs = union_pass(geo.segs, 1, <<>>, <<>>).dedup,
                 !.passes = geo.passes + 1,
                 !.pc = IF union_pass(geo.segs, 1, <<>>, <<>>).used = <<>>
                        THEN "returned" ELSE "list"]

SegmentNext ==
    /\ SegIntersect \/ SegUnion \/ SegUnionPass
    /\ UNCHANGED <<ordVars, stageVars, pipeVars, det, score, cache, http, steps, gray_img, srv>>

SpecSegment == SegmentInit /\ [][SegmentNext]_vars


(***************************************************************************)
(* The preview server: PreviewApp and dispatch_request                     *)
(* (preview/server.py).  A path is the list of its "/"-separated parts     *)
(* with the extension of the last part kept apart: "/api/page/0.png" is    *)
(* [segs |-> <<"api", "page", "0">>, ext |-> "png"], "/" is                 *)
(* [segs |-> <<"">>, ext |-> ""].  A query maps a key to <<>> (absent) or   *)
(* to <<text>> (its first value; parse_qs gives no empty lists).           *)
(***************************************************************************)
MaxPages == 1

IndexTexts == {"0", "1", "01", "-1", "nope"}

\* int(text): <<n>>, or <<>> where int() raises ValueError
int_of(text) ==
    CASE text = "0" -> <<0>>
      [] text = "1" -> <<1>>
      [] text = "01" -> <<1>>
      [] text = "-1" -> <<-1>>
      [] OTHER -> <<>>

\* float(text) and int(text) of a settings value succeed
float_ok(text) == text \in {"0.05", "500"}

int_ok(text) == text \in {"500"}

path_of(segs, ext) == [segs |-> segs, ext |-> ext]

ApiBook == path_of(<<"api", "book">>, "")

ApiDebug == path_of(<<"api", "debug">>, "")

ApiSettings == path_of(<<"api", "settings">>, "")

PagePaths ==
    {path_of(<<"api", "page", t>>, e) : t \in IndexTexts, e \in {"png", "json"}}
    \cup {path_of(<<"api", "page", t, "debug">>, "json") : t \in IndexTexts}
    \cup {path_of(<<"api", "page", t, "debug", "00-input">>, e) :
              t \in IndexTexts, e \in {"jpg", "png"}}
    \cup {path_of(<<"api", "page", t, "debug", "missing">>, "jpg") : t \in IndexTexts}

OtherPaths ==
    {ApiBook, ApiDebug, ApiSettings,
     path_of(<<"api", "nope">>, ""), path_of(<<"api", "page">>, "json"),
     path_of(<<"api", "page", "0">>, "txt"), path_of(<<"api">>, ""),
     path_of(<<"">>, ""), path_of(<<"index">>, "html"),
     path_of(<<"styles">>, "css"), path_of(<<"app">>, "js"),
     path_of(<<"", "styles">>, "css"), path_of(<<"static", "app">>, "js"),
     path_of(<<"nope">>, ""), path_of(<<"server">>, "py")}

Paths == PagePaths \cup OtherPaths

NoQuery == [refresh |-> <<>>, set |-> <<>>, min_panel_ratio |-> <<>>,
            max_segments |-> <<>>]

Queries ==
    {NoQuery, [NoQuery EXCEPT !.refresh = <<"1">>],
     [NoQuery EXCEPT !.set = <<"1">>], [NoQuery EXCEPT !.set = <<"0">>],
     [NoQuery EXCEPT !.min_panel_ratio = <<"0.05">>],
     [NoQuery EXCEPT !.min_panel_ratio = <<"abc">>],
     [NoQuery EXCEPT !.max_segments = <<"500">>],
     [NoQuery EXCEPT !.max_segments = <<"0.05">>]}

\* What reading the book, a debug image or a static file raises when the
\* request gets that far
Faults == {"none", "FileNotFoundError", "ValueError", "IndexError", "RuntimeError"}

result(outcome, app) == [outcome |-> outcome, app |-> app]

raise_or_ok(fault) == IF fault = "none" THEN "OK" ELSE fault

\* LRUCache.set as one call: move_to_end, assign, evict while too long
RECURSIVE lru_evict(_, _)
lru_evict(od, maxsize) ==
    IF Len(od) > maxsize THEN lru_evict(popitem_first(od), maxsize) ELSE od

lru_set(od, maxsize, key, value) ==
    lru_evict(od_assign(IF key \in od_keys(od) THEN move_to_end(od, key) ELSE od,
                        key, value), maxsize)

\* Extractor.get_page: IndexError outside 0..page_count-1, else the page is read
get_page(app, index, fault) ==
    IF index < 0 \/ index >= app.page_count THEN "IndexError"
    ELSE raise_or_ok(fault)

page_png(app, index, refresh, fault) ==
    IF ~refresh /\ index \in od_keys(app.png_cache)
    THEN result("OK", [app EXCEPT !.png_cache = move_to_end(@, index)])
    ELSE IF get_page(app, index, fault) # "OK"
    THEN result(get_page(app, index, fault), app)
    ELSE result("OK", [app EXCEPT !.png_cache = lru_set(@, CacheSize, index, "png_a")])

\* page_json: with config.debug the detection writes the page's debug images
page_json(app, index, refresh, fault) ==
    IF ~refresh /\ index \in od_keys(app.json_cache)
    THEN result("OK", [app EXCEPT !.json_cache = move_to_end(@, index)])
    ELSE IF get_page(app, index, fault) # "OK"
    THEN result(get_page(app, index, fault), app)
    ELSE result("OK", [app EXCEPT
             !.json_cache = lru_set(@, CacheSize, index, "png_b"),
             !.debug_dirs = IF app.debug THEN @ \cup {index} ELSE @])

set_debug(app, enabled) ==
    IF app.debug # enabled
    THEN [app EXCEPT !.debug = enabled, !.json_cache = <<>>]
    ELSE app

\* update_settings: float() and int() of the values, then the cache is cleared
update_settings(app, qs) ==
    IF \/ (qs.min_panel_ratio # <<>> /\ ~float_ok(qs.min_panel_ratio[1]))
       \/ (qs.max_segments # <<>> /\ ~int_ok(qs.max_segments[1]))
    THEN result("ValueError", app)
    ELSE result("OK", [app EXCEPT !.json_cache = <<>>])

\* debug_image: None when the file is not there, else its bytes are read
debug_image(app, index, path, fault) ==
    IF index \in app.debug_dirs /\ Len(path.segs) = 5
       /\ path.segs[5] = "00-input" /\ path.ext = "jpg"
    THEN raise_or_ok(fault)
    ELSE "NOT_FOUND"

\* path.lstrip("/")
RECURSIVE lstrip_slash(_)
lstrip_slash(segs) ==
    IF segs # <<>> /\ Head(segs) = "" THEN lstrip_slash(Tail(segs)) ELSE segs

StaticAllowed ==
    {path_of(<<"index">>, "html"), path_of(<<"styles">>, "css"),
     path_of(<<"app">>, "js")}

static_rel(path) ==
    IF path \in {path_of(<<"">>, ""), path_of(<<"index">>, "html")}
    THEN path_of(<<"index">>, "html")
    ELSE path_of(lstrip_slash(path.segs), path.ext)

static_bytes(path, fault) ==
    IF static_rel(path) \notin StaticAllowed THEN "FileNotFoundError"
    ELSE raise_or_ok(fault)

\* path.startswith("/api/")
starts_with_api(path) == Len(path.segs) >= 2 /\ path.segs[1] = "api"

\* path.startswith("/api/page/")
starts_with_page(path) ==
    Len(path.segs) >= 3 /\ path.segs[1] = "api" /\ path.segs[2] = "page"

\* path.endswith("/debug.json")
ends_with_debug_json(path) ==
    path.ext = "json" /\ path.segs[Len(path.segs)] = "debug"

\* "/debug/" in path
has_debug_part(path) == \E k \in 1..(Len(path.segs) - 1) : path.segs[k] = "debug"

\* int() of the path between "/api/page/" and the suffix ".png" or ".json"
index_before_ext(path) ==
    IF Len(path.segs) = 3 THEN int_of(path.segs[3]) ELSE <<>>

\* int() of the path between "/api/page/" and "/debug.json"
index_before_debug_json(path) ==
    IF Len(path.segs) = 4 THEN int_of(path.segs[3]) ELSE <<>>

\* int() of rest.partition("/debug/")[0]
index_before_debug(path) ==
    IF Len(path.segs) >= 5 /\ path.segs[4] = "debug"
    THEN int_of(path.segs[3]) ELSE <<>>

\* The try block of dispatch_request: "OK", "NOT_FOUND" (the 404 returned
\* without an exception) or the exception raised, and the app afterwards
dispatch_try(app, path, qs, fault) ==
    IF ~starts_with_api(path) THEN result(static_bytes(path, fault), app)
    ELSE IF path = ApiBook THEN result(raise_or_ok(fault), app)
    ELSE IF starts_with_page(path) /\ path.ext = "png"
    THEN IF index_before_ext(path) = <<>> THEN result("ValueError", app)
         ELSE page_png(app, index_before_ext(path)[1], qs.refresh = <<"1">>, fault)
    ELSE IF path = ApiDebug
    THEN result("OK", IF qs.set # <<>> THEN set_debug(app, qs.set = <<"1">>) ELSE app)
    ELSE IF path = ApiSettings
    THEN IF qs.min_panel_ratio # <<>> \/ qs.max_segments # <<>>
         THEN update_settings(app, qs) ELSE result("OK", app)
    ELSE IF starts_with_page(path) /\ ends_with_debug_json(path)
    THEN IF index_before_debug_json(path) = <<>> THEN result("ValueError", app)
         ELSE result("OK", app)
    ELSE IF starts_with_page(path) /\ has_debug_part(path)
    THEN IF index_before_debug(path) = <<>> THEN result("ValueError", app)
         ELSE result(debug_image(app, index_before_debug(path)[1], path, fault), app)
    ELSE IF starts_with_page(path) /\ path.ext = "json"
    THEN IF index_before_ext(path) = <<>> THEN result("ValueError", app)
         ELSE page_json(app, index_before_ext(path)[1], qs.refresh = <<"1">>, fault)
    ELSE result("NOT_FOUND", app)

\* The except clauses without the last one: another exception leaves the call
response_no_catch_all(outcome) ==
    CASE outcome = "OK" -> [raised |-> FALSE, status |-> 200]
      [] outcome = "NOT_FOUND" -> [raised |-> FALSE, status |-> 404]
      [] outcome = "FileNotFoundError" -> [raised |-> FALSE, status |-> 404]
      [] outcome = "ValueError" -> [raised |-> FALSE, status |-> 400]
      [] outcome = "IndexError" -> [raised |-> FALSE, status |-> 404]
      [] OTHER -> [raised |-> TRUE, status |-> 0]

\* The returns and except clauses of dispatch_request
response(outcome) ==
    CASE outcome = "OK" -> [raised |-> FALSE, status |-> 200]
      [] outcome = "NOT_FOUND" -> [raised |-> FALSE, status |-> 404]
      [] outcome = "FileNotFoundError" -> [raised |-> FALSE, status |-> 404]
      [] outcome = "ValueError" -> [raised |-> FALSE, status |-> 400]
      [] outcome = "IndexError" -> [raised |-> FALSE, status |-> 404]
      [] OTHER -> [raised |-> FALSE, status |-> 500]

dispatch_request(app, path, qs, fault) ==
    [resp |-> response(dispatch_try(app, path, qs, fault).outcome),
     app |-> dispatch_try(app, path, qs, fault).app]

HttpInit ==
    /\ \E page_count \in 1..MaxPages, debug \in BOOLEAN :
          http = [pc |-> "wait",
                  app |-> [page_count |-> page_count, debug |-> debug,
                           png_cache |-> <<>>, json_cache |-> <<>>,
                           debug_dirs |-> {}],
                  req |-> <<>>, resp |-> <<>>]
    /\ CoreIdle
    /\ GeoIdle
    /\ CacheIdle
    /\ SrvIdle

\* do_GET up to the return of dispatch_request; prev is the app before the call
HttpRequest ==
    /\ http.pc = "wait"
    /\ \E path \in Paths, qs \in Queries, fault \in Faults :
          http' = [pc |-> "done",
                   app |-> dispatch_request(http.app, path, qs, fault).app,
                   req |-> <<[path |-> path, qs |-> qs, fault |-> fault,
                              prev |-> http.app]>>,
                   resp |-> <<dispatch_request(http.app, path, qs, fault).resp>>]

\* do_GET: self._send(status, body, content_type, cache=cache)
HttpSend ==
    /\ http.pc = "done"
    /\ http' = [http EXCEPT !.pc = "wait", !.req = <<>>, !.resp = <<>>]

HttpNext ==
    /\ (HttpRequest \/ HttpSend)
    /\ UNCHANGED <<ordVars, stageVars, pipeVars, det, score, geo, cache, steps, gray_img, srv>>

SpecHttp == HttpInit /\ [][HttpNext]_vars

----------------------------------------------------------------------------
(***************************************************************************)
(* Preview server: PreviewApp under ThreadingHTTPServer                    *)
(*                                                                         *)
(* Every request runs dispatch_request on a thread of its own; the threads *)
(* share one PreviewApp. Its fields are read and written without a lock    *)
(* (self._lock guards the book hash only); the caches lock each get, set   *)
(* and clear on their own. A detector is known by the generation of the    *)
(* settings it was built from; a page by the detector generation and the   *)
(* debug mode it was computed with (generation 0: the CV detector did not  *)
(* run), the CV confidence, the number of panels the ML detector found,    *)
(* the detector whose panels it holds and the source it records.           *)
(***************************************************************************)
\* Request threads at work at the same time
ServerThreads == 2

\* Calls of update_settings in one run
MaxUpdates == 1

\* PreviewConfig.confidence_threshold = 0.7, in hundredths
confidence_threshold == 70

\* DetectionResult.confidence of the CV detector, in hundredths
ConfidenceLevels == {confidence_threshold - 1, confidence_threshold}

\* PreviewApp.__init__: the ML detector exists when ML is asked for (forced or
\* as fallback) and its dependencies are installed
has_ml_detector(use_ml, fallback, available) == (use_ml \/ fallback) /\ available

\* PreviewApp.__init__: the fallback is turned off without the dependencies
ml_fallback_of(fallback, available) == fallback /\ available

\* A variant that takes the ML result whenever the fallback ran
choose_detection_unchecked(app, cv_conf, ml_panels) ==
    IF app.use_ml /\ app.ml_detector
    THEN [result |-> "ml", source |-> "yolo"]
    ELSE IF app.ml_fallback /\ app.ml_detector /\ cv_conf < confidence_threshold
         THEN [result |-> "ml", source |-> "yolo"]
         ELSE [result |-> "cv", source |-> "cv"]

\* "Determine which detector to use": the detector whose panels are returned
\* and the source recorded with them
choose_detection(app, cv_conf, ml_panels) ==
    IF app.use_ml /\ app.ml_detector
    THEN [result |-> "ml", source |-> "yolo"]
    ELSE IF /\ app.ml_fallback /\ app.ml_detector
            /\ cv_conf < confidence_threshold
            /\ ml_panels > 0
         THEN [result |-> "ml", source |-> "yolo"]
         ELSE [result |-> "cv", source |-> "cv"]

\* The page dict page_json builds
PageDict(gen, dbg, cv_conf, ml_panels, chosen) ==
    [det |-> gen, dbg |-> dbg, cv_conf |-> cv_conf, ml_panels |-> ml_panels,
     result |-> chosen.result, source |-> chosen.source]

ThreadIdle == [pc |-> "idle"]

\* PreviewApp.__init__, and the server with n request threads
PreviewApp(use_ml, fallback, available, n) ==
    [pc |-> "serving",
     use_ml |-> use_ml,
     ml_detector |-> has_ml_detector(use_ml, fallback, available),
     ml_fallback |-> ml_fallback_of(fallback, available),
     settings |-> 1,
     cv_detector |-> 1,
     debug |-> FALSE,
     json_cache |-> [i \in 0..(MaxPages - 1) |-> <<>>],
     threads |-> [t \in 1..n |-> ThreadIdle]]

SrvInit ==
    /\ \E use_ml \in BOOLEAN, fallback \in BOOLEAN, available \in BOOLEAN :
          srv = PreviewApp(use_ml, fallback, available, ServerThreads)
    /\ CoreIdle
    /\ GeoIdle
    /\ CacheIdle
    /\ HttpIdle

\* The server answering one request at a time
SrvInitSerial ==
    /\ \E use_ml \in BOOLEAN, fallback \in BOOLEAN, available \in BOOLEAN :
          srv = PreviewApp(use_ml, fallback, available, 1)
    /\ CoreIdle
    /\ GeoIdle
    /\ CacheIdle
    /\ HttpIdle

\* page_json, the cache lookup: a hit is returned, a miss or a refresh goes on
PageJsonLookup(t) ==
    /\ srv.threads[t].pc = "idle"
    /\ \E index \in 0..(MaxPages - 1), refresh \in BOOLEAN :
          IF ~refresh /\ srv.json_cache[index] # <<>>
          THEN UNCHANGED srv
          ELSE srv' = [srv EXCEPT !.threads[t] = [pc |-> "debug", index |-> index]]

\* page_json reads self.config.debug for the debug context
PageJsonDebug(t) ==
    /\ srv.threads[t].pc = "debug"
    /\ srv' = [srv EXCEPT !.threads[t] =
                  [pc |-> "detect", index |-> srv.threads[t].index,
                   dbg |-> srv.debug]]

\* page_json reads self.cv_detector (unless ML is forced) and runs the
\* detection; the page is built from the result
PageJsonDetect(t) ==
    /\ srv.threads[t].pc = "detect"
    /\ \E cv_conf \in ConfidenceLevels, ml_panels \in 0..1 :
          srv' = [srv EXCEPT !.threads[t] =
                     [pc |-> "store", index |-> srv.threads[t].index,
                      page |-> PageDict(IF srv.use_ml /\ srv.ml_detector
                                        THEN 0 ELSE srv.cv_detector,
                                        srv.threads[t].dbg, cv_conf, ml_panels,
                                        choose_detection(srv, cv_conf, ml_panels))]]

\* self._page_json_cache.set(index, page); return page
PageJsonStore(t) ==
    /\ srv.threads[t].pc = "store"
    /\ srv' = [srv EXCEPT !.json_cache[srv.threads[t].index] =
                             <<srv.threads[t].page>>,
                          !.threads[t] = ThreadIdle]

\* update_settings writes the new values into self.cv_settings
UpdateSettingsWrite(t) ==
    /\ srv.threads[t].pc = "idle"
    /\ srv.settings <= MaxUpdates
    /\ srv' = [srv EXCEPT !.settings = srv.settings + 1,
                          !.threads[t] = [pc |-> "rebuild"]]

\* self.cv_detector = self._build_cv_detector(), from the settings as they are
UpdateSettingsRebuild(t) ==
    /\ srv.threads[t].pc = "rebuild"
    /\ srv' = [srv EXCEPT !.cv_detector = srv.settings,
                          !.threads[t] = [pc |-> "clear"]]

\* self._page_json_cache.clear(), the last statement of update_settings and,
\* when the mode changed, of set_debug
ClearJsonCache(t) ==
    /\ srv.threads[t].pc = "clear"
    /\ srv' = [srv EXCEPT !.json_cache = [i \in 0..(MaxPages - 1) |-> <<>>],
                          !.threads[t] = ThreadIdle]

\* set_debug with a mode other than the current one (with the current mode it
\* does nothing)
SetDebugWrite(t) ==
    /\ srv.threads[t].pc = "idle"
    /\ \E enabled \in BOOLEAN :
          /\ srv.debug # enabled
          /\ srv' = [srv EXCEPT !.debug = enabled,
                                !.threads[t] = [pc |-> "clear"]]

SrvNext ==
    /\ \E t \in DOMAIN srv.threads :
          \/ PageJsonLookup(t) \/ PageJsonDebug(t) \/ PageJsonDetect(t)
          \/ PageJsonStore(t) \/ UpdateSettingsWrite(t)
          \/ UpdateSettingsRebuild(t) \/ ClearJsonCache(t) \/ SetDebugWrite(t)
    /\ UNCHANGED <<ordVars, stageVars, pipeVars, det, score, geo, cache, http,
                   steps, gray_img>>

SpecServer == SrvInit /\ [][SrvNext]_vars

SpecServerSerial == SrvInitSerial /\ [][SrvNext]_vars
----------------------------------------------------------------------------
\* Properties of the reading-order solver

\* The must-precede predecessors of panel i
MustPrecede(i) == {neighbors_before(i, bboxes, direction)[k] :
                      k \in 1..Len(neighbors_before(i, bboxes, direction))}

\* Warshall closure of a relation over the nodes 0..n-1
RECURSIVE Closure(_, _, _)
Closure(R, k, n) ==
    IF k >= n THEN R
    ELSE Closure(R \cup {<<i, j>> \in (0..(n - 1)) \X (0..(n - 1)) :
                            <<i, k>> \in R /\ <<k, j>> \in R}, k + 1, n)

MustPrecedeRel == {<<p, i>> \in PanelIdx(bboxes) \X PanelIdx(bboxes) :
                      p \in MustPrecede(i)}

MustPrecedeAcyclic ==
    \A i \in PanelIdx(bboxes) :
        <<i, i>> \notin Closure(MustPrecedeRel, 0, Len(bboxes))

OrderReturned == opc \in {"returned", "paged"}

PredecessorsFirst ==
    \A i \in PanelIdx(bboxes) : \A p \in MustPrecede(i) :
        IndexOf(indices, p) < IndexOf(indices, i)

\* C1 (as stated): for every list of bboxes and each direction, the list
\* returned by order_panels has every panel after all of its must-precede
\* predecessors.
C1_AllInputs == OrderReturned => PredecessorsFirst

\* C1 (amended): when the must-precede relation of the input is acyclic, the
\* list returned by order_panels has every panel after all of its
\* must-precede predecessors (overlapping and touching bboxes included).
C1_AcyclicPredecessorsFirst ==
    OrderReturned => (PredecessorsFirst \/ ~MustPrecedeAcyclic)

Overlapping(b1, b2) ==
    /\ b1[1] < b2[1] + b2[3] /\ b2[1] < b1[1] + b1[3]
    /\ b1[2] < b2[2] + b2[4] /\ b2[2] < b1[2] + b1[4]

\* C1 witness: order_panels has returned for an acyclic input with overlapping
\* bboxes, after a repair pass moved a panel behind a row predecessor.
C1_Witness ==
    /\ opc = "returned"
    /\ iteration >= 3
    /\ \E i, j \in PanelIdx(bboxes) :
          i # j /\ Overlapping(bboxes[i + 1], bboxes[j + 1])
    /\ \E i \in PanelIdx(bboxes) : Cardinality(MustPrecede(i)) >= 2
    /\ PredecessorsFirst
    /\ MustPrecedeAcyclic

IsPermutation(ind, n) ==
    /\ Len(ind) = n
    /\ \A i \in 0..(n - 1) : Cardinality({k \in 1..Len(ind) : ind[k] = i}) = 1

\* C4: order_panels returns a permutation of 0..n-1 for every input and either
\* direction ([] for no bbox, [0] for one), and Page.order lists each of the
\* pairwise distinct panel ids p-0..p-(n-1) exactly once.
C4_OrderIsPermutation ==
    /\ OrderReturned => IsPermutation(indices, Len(bboxes))
    /\ (OrderReturned /\ Len(bboxes) = 0) => indices = <<>>
    /\ (OrderReturned /\ Len(bboxes) = 1) => indices = <<0>>
    /\ opc = "paged" =>
          /\ Len(page_order) = Len(bboxes)
          /\ \A i \in PanelIdx(bboxes) :
                Cardinality({k \in 1..Len(page_order) :
                                page_order[k] = PanelId(i)}) = 1
          /\ \A i, j \in PanelIdx(bboxes) : i # j => PanelId(i) # PanelId(j)

\* C4 witness: a page was built for the largest input after repair passes that
\* moved panels.
C4_Witness ==
    /\ opc = "paged"
    /\ Len(bboxes) = MaxBoxes
    /\ iteration >= 3
    /\ page_order # [k \in 1..Len(bboxes) |-> PanelId(k - 1)]

\* Panels i and j sit in one row: same_row with disjoint x-extents
InOneRow(i, j) ==
    /\ same_row(bboxes[i + 1], bboxes[j + 1])
    /\ same_row(bboxes[j + 1], bboxes[i + 1])
    /\ \/ _to_xyrb(bboxes[i + 1])[3] <= bboxes[j + 1][1]
       \/ _to_xyrb(bboxes[j + 1])[3] <= bboxes[i + 1][1]

\* Panel j starts at or below the bottom of panel i
StartsBelow(i, j) == bboxes[j + 1][2] >= _to_xyrb(bboxes[i + 1])[4]

\* The page is made of rows: panels of positive size, any two of them either
\* in one row or one below the other, the rows being classes (a panel in the
\* row of i relates to every third panel as i does)
ArrangedInRows ==
    /\ \A i \in PanelIdx(bboxes) : bboxes[i + 1][3] > 0 /\ bboxes[i + 1][4] > 0
    /\ \A i, j \in PanelIdx(bboxes) :
          i # j => InOneRow(i, j) \/ StartsBelow(i, j) \/ StartsBelow(j, i)
    /\ \A i, j, k \in PanelIdx(bboxes) :
          (i # j /\ i # k /\ j # k /\ InOneRow(i, j)) =>
              /\ InOneRow(i, k) <=> InOneRow(j, k)
              /\ StartsBelow(i, k) <=> StartsBelow(j, k)
              /\ StartsBelow(k, i) <=> StartsBelow(k, j)

\* Panel i is read before panel j on a page made of rows
ReadBefore(i, j) ==
    IF InOneRow(i, j)
    THEN IF direction = "rtl" THEN bboxes[i + 1][1] > bboxes[j + 1][1]
         ELSE bboxes[i + 1][1] < bboxes[j + 1][1]
    ELSE StartsBelow(i, j)

\* C11: for panels arranged in rows, order_panels lists the rows top to
\* bottom and each row left to right under LTR, right to left under RTL; the
\* row (300,100,200,200), (50,100,200,200) gives [1, 0] under LTR and [0, 1]
\* under RTL, and (50,10,100,100), (200,10,100,100), (100,200,100,100) gives
\* [0, 1, 2] under LTR.
C11_RowsInReadingOrder ==
    OrderReturned =>
        /\ ArrangedInRows =>
              \A k, l \in 1..Len(indices) :
                  k < l => ReadBefore(indices[k], indices[l])
        /\ (Len(bboxes) = 2 /\ bboxes \in OrdRowPages) =>
              indices = IF direction = "ltr" THEN <<1, 0>> ELSE <<0, 1>>
        /\ (Len(bboxes) = 3 /\ bboxes \in OrdRowPages /\ direction = "ltr") =>
              indices = <<0, 1, 2>>

\* C11 witness: order_panels has returned for a page of two rows of two
\* panels, read right to left, given in another order than it is read
C11_Witness ==
    /\ opc = "returned"
    /\ direction = "rtl"
    /\ Len(bboxes) = 4
    /\ ArrangedInRows
    /\ \E i, j \in PanelIdx(bboxes) : i # j /\ InOneRow(i, j)
    /\ \E i, j \in PanelIdx(bboxes) : ~InOneRow(i, j) /\ StartsBelow(i, j)
    /\ indices # <<0, 1, 2, 3>>

----------------------------------------------------------------------------
\* Properties of remove_contained_panels

\* p has 90% or more of its (positive) area inside q
MostlyInside(p, q) ==
    /\ area(p) > 0
    /\ has_overlap(p, q)
    /\ 10 * area(overlap_panel(p, q)) >= 9 * area(p)

\* C7: after remove_contained_panels (threshold 0.9) returns, no remaining
\* panel of positive area has 90% or more of its area inside another
\* remaining panel. Violated: the inner loop breaks at the first container of
\* a panel, so a later container of the same panel is never marked.
C7_NoContainedAfter ==
    stage = "remove_contained" =>
        \A i, j \in 1..Len(panels_out) :
            i # j => ~MostlyInside(panels_out[i], panels_out[j])

----------------------------------------------------------------------------
\* Properties of expand_panels

\* Panel q is panel p enlarged (or p itself)
Enlarges(p, q) == q.x <= p.x /\ q.y <= p.y /\ q.r >= p.r /\ q.b >= p.b

\* C8: expand_panels only enlarges: x and y never increase, right and bottom
\* never decrease, and the working set keeps exactly its panels.
C8_ExpandOnlyEnlarges ==
    stage = "expand" =>
        /\ Len(panels_out) = Len(panels_in)
        /\ \A k \in 1..Len(panels_in) : Enlarges(panels_in[k], panels_out[k])

\* A run of expand_panels over three panels in which one panel grew to the
\* left or upwards, one grew to the right or downwards, and for one panel a
\* proposed coordinate that would have shrunk it was rejected.
C8_Witness ==
    /\ stage = "expand"
    /\ Len(panels_in) = 3
    /\ \E k \in 1..3 : panels_out[k].x < panels_in[k].x \/ panels_out[k].y < panels_in[k].y
    /\ \E k \in 1..3 : panels_out[k].r > panels_in[k].r \/ panels_out[k].b > panels_in[k].b
    /\ \E k \in 1..3 : \E d \in {"x", "y"} :
          expand_newcoord(panels_out, d, actual_gutters(panels_in),
                          find_neighbour_panel(panels_out, k, d)) > panels_out[k][d]

----------------------------------------------------------------------------
\* Properties of deoverlap_panels

\* The overlap rectangle of p and q exists, and is taller than wide (it then
\* ends at the right edge of p or of q) or wider than tall (it then ends at
\* the bottom edge of p or of q)
SameEdgePair(p, q) ==
    /\ has_overlap(p, q)
    /\ \/ /\ w(overlap_panel(p, q)) < h(overlap_panel(p, q))
          /\ overlap_panel(p, q).r \in {p.r, q.r}
       \/ /\ w(overlap_panel(p, q)) > h(overlap_panel(p, q))
          /\ overlap_panel(p, q).b \in {p.b, q.b}

\* C9: after deoverlap_panels, every pair of panels whose overlap rectangle
\* was taller than wide and shared a right edge, or wider than tall and shared
\* a bottom edge, has overlap area zero.
C9_SameEdgeOverlapZero ==
    stage = "deoverlap" =>
        \A i, j \in 1..Len(panels_in) :
            (i # j /\ SameEdgePair(panels_in[i], panels_in[j]))
                => overlap_area(panels_out[i], panels_out[j]) = 0

----------------------------------------------------------------------------
\* Properties of group_small_panels

SmallCount(ps) == Cardinality(small_positions(ps, conf))

\* Two small panels of the input are close to each other
HasClosePair ==
    \E i, j \in small_positions(panels_in, conf) :
        i # j /\ is_close(panels_in[i], panels_in[j])

\* The connected components, under is_close, of two or more small panels
CloseComponents ==
    {comp \in SUBSET small_positions(panels_in, conf) :
        /\ Cardinality(comp) >= 2
        /\ \E k \in comp : comp = component_of(panels_in, small_positions(panels_in, conf), k)}

Covers(q, p) == q.x <= p.x /\ q.y <= p.y /\ q.r >= p.r /\ q.b >= p.b

\* C10: when the input holds two small panels close to each other, the
\* result has strictly fewer small panels; the members of every component of
\* two or more small panels are gone, and per component the result holds one
\* non-splittable panel, whose bounds cover all members of its component.
C10_GroupSmallDecreases ==
    (stage = "group_small" /\ HasClosePair) =>
        /\ SmallCount(panels_out) < SmallCount(panels_in)
        /\ \A comp \in CloseComponents : \A k \in comp :
              \A m \in 1..Len(panels_out) : panels_out[m] # panels_in[k]
        /\ Cardinality({m \in 1..Len(panels_out) : ~panels_out[m].spl})
              = Cardinality(CloseComponents)
        /\ \A comp \in CloseComponents :
              \E m \in 1..Len(panels_out) :
                  /\ ~panels_out[m].spl
                  /\ \A k \in comp : Covers(panels_out[m], panels_in[k])

\* A run of group_small_panels on three small panels, two of them close to
\* each other and the third far from both: the pair is replaced by one panel
\* and the third panel stays.
C10_Witness ==
    /\ stage = "group_small"
    /\ Len(panels_in) = 3
    /\ SmallCount(panels_in) = 3
    /\ Cardinality(CloseComponents) = 1
    /\ Len(panels_out) = 2
    /\ panels_out[1].spl /\ ~panels_out[2].spl

----------------------------------------------------------------------------
\* Properties of detect_panels

\* C2: detect_panels returns at least one panel, whatever the stage flags.
\* Violated: remove_contained_panels runs after the fallback and removes the
\* container of every panel that lies to 90% in another, so two panels that
\* lie to 90% in each other are both removed.
C2_NeverEmpty == stage = "returned" => Len(panels_out) >= 1

\* C6: no panel detect_panels returns is small: its width is at least
\* W * min_panel_ratio and its height at least H * min_panel_ratio.
C6_NoSmallPanelReturned ==
    stage = "returned" =>
        \A k \in 1..Len(panels_out) : ~is_small(panels_out[k], conf)

\* A run of detect_panels with splitting and expansion on, from a page with
\* a small contour, that returns two or more panels none of which is a panel
\* of the initial set; one of them fills the page in one direction.
C6_Witness ==
    /\ stage = "returned"
    /\ flags.splitting /\ flags.expansion
    /\ \E k \in 1..Len(panels_in) : is_small(panels_in[k], conf)
    /\ Len(panels_out) >= 2
    /\ \A k \in 1..Len(panels_out) : \A m \in 1..Len(panels_in) :
          to_xywh(panels_out[k]) # to_xywh(panels_in[m])
    /\ \E k \in 1..Len(panels_out) :
          w(panels_out[k]) = conf.W \/ h(panels_out[k]) = conf.H

\* The bounds (x, y, r, b) of the panels of a working set, in list order
bounds_of(ps) == [k \in 1..Len(ps) |-> <<ps[k].x, ps[k].y, ps[k].r, ps[k].b>>]

\* C12 as stated: when segment detection ran and found no segment, neither
\* the split stage nor the big-panel grouping stage changes the working set.
\* Violated: group_big_panels skips a pair only for a strong segment inside
\* the union; with no segments nothing is skipped and every pair whose union
\* does not bump into another panel is grouped.
C12_NoSegmentsNoSplitNoGroup ==
    [][(/\ segments = {}
        /\ flags.splitting \/ flags.big_grouping
        /\ stage \in {"grouped_small", "fallback"})
          => bounds_of(panels_out') = bounds_of(panels_out)]_vars

\* No pair of the working set is left whose union stays clear of the others
all_grouped(ps) ==
    \A i, j \in 1..Len(ps) :
        i < j => bumps_into(group_with(ps[i], ps[j]),
                            merge_other_panels(ps, ps[i], ps[j]))

\* C12: when segment detection ran and found no segment, the split stage
\* leaves the working set unchanged, and the big-panel grouping stage, if it
\* is on, groups until no pair is left whose union stays clear of the other
\* panels; the stages in between and after run as always.
C12_NoSegmentsNoSplitAllGrouped ==
    [][(segments = {} /\ (flags.splitting \/ flags.big_grouping))
          => /\ stage = "grouped_small"
                  => bounds_of(panels_out') = bounds_of(panels_out)
             /\ (stage = "fallback" /\ flags.big_grouping)
                  => all_grouped(panels_out')
             /\ stage # "returned" => stage' # stage]_vars

\* Both stages on, no segments: two panels apart, each large enough to be
\* returned, come out of the grouping stage as the one panel that holds both
C12_Witness ==
    /\ stage = "grouped_big"
    /\ segments = {}
    /\ flags.splitting /\ flags.big_grouping
    /\ Len(panels_in) = 2
    /\ ~overlaps(panels_in[1], panels_in[2])
    /\ ~is_small(panels_in[1], conf) /\ ~is_small(panels_in[2], conf)
    /\ bounds_of(panels_out) = bounds_of(<<group_with(panels_in[1], panels_in[2])>>)

\* C13 as stated: a configuration with min_panel_ratio <= 0 is rejected, no
\* stage of the pipeline runs on it.
\* Violated: neither CVDetector.__init__ nor detect_panels checks the value;
\* the stages run with it and no panel counts as small.
C13_InvalidConfigRejected == conf.num <= 0 => stage = "initial"

----------------------------------------------------------------------------
\* Properties of CVDetector.detect

\* C3: every output bbox (x, y, w, h) lies within the original image of size
\* W x H: 0 <= x, 0 <= y, w >= 1, h >= 1, x + w <= W and y + h <= H, also
\* after downscaling and rescaling by 1 / scale.
C3_BboxWithinImage ==
    det.pc = "returned" =>
        /\ 0 <= det.out[1] /\ 0 <= det.out[2]
        /\ det.out[3] >= 1 /\ det.out[4] >= 1
        /\ det.out[1] + det.out[3] <= det.W
        /\ det.out[2] + det.out[4] <= det.H

\* A downscaled page whose panel starts left of the image and is wider than
\* it: the bbox returned starts at 0 and ends inside the original image.
C3_Witness ==
    /\ det.pc = "returned"
    /\ det.scaled
    /\ det.bbox[1] < 0 /\ det.bbox[3] > det.W
    /\ det.bbox[4] <= 0
    /\ det.out[1] = 0 /\ det.out[3] > 1 /\ det.out[3] <= det.W

----------------------------------------------------------------------------
\* Properties of the confidence scores

InUnit(v) == 0 <= v /\ v <= 100

\* C5: every confidence a scoring call returns lies in [0, 1]: the value of
\* compute_panel_confidence for any split_coverage, edge_strength, polygon
\* and gray image; the value of compute_page_confidence for any gutter
\* lists, areas and panel counts; and the panel confidences and the page
\* confidence of a DetectionResult, with and without skip_scoring.
C5_ConfidencesInUnitInterval ==
    score.pc = "returned" =>
        /\ InUnit(score.out[1])
        /\ score.kind = "detect" =>
              \A k \in 1..Len(score.confs) : InUnit(score.confs[k])

\* a panel whose weighted mean exceeds 1 before the clamp
C5_Witness ==
    /\ score.pc = "returned"
    /\ score.kind = "panel"
    /\ score.split_coverage = <<300>>
    /\ score.edge_strength = <<300>>
    /\ score.out = <<100>>

----------------------------------------------------------------------------
\* Properties of the LRU cache

\* The cache that one call, run alone on the cache od, leaves behind: get
\* of a present key and set make the key the most recent one (the last),
\* set keeps the maxsize most recent entries, clear empties the cache
without_key(od, key) == SelectSeq(od, LAMBDA e : e[1] # key)

most_recent(od, n) == SubSeq(od, Max2(Len(od) - n, 0) + 1, Len(od))

cache_after(op, key, value, od, maxsize) ==
    IF op = "clear" THEN <<>>
    ELSE IF op = "set"
    THEN most_recent(without_key(od, key) \o <<<<key, value>>>>, maxsize)
    ELSE IF key \in od_keys(od)
    THEN without_key(od, key) \o <<<<key, od_value(od, key)>>>>
    ELSE od

\* What the call returns: the value for get of a present key, else None
returned_by(op, key, od) ==
    IF op = "get" /\ key \in od_keys(od) THEN <<od_value(od, key)>> ELSE <<>>

\* C14: get, set and clear are atomic under every interleaving of the
\* threads: a thread is inside an operation only while it holds the lock, and
\* when it is about to release the lock the cache and the value it returns
\* are those of the call run alone on the cache it found. Hence a get of an
\* absent key returns None and changes nothing, get of a present key and set
\* make the key the most recent, set evicts from the least recent end, and
\* whenever no call is under way the cache holds at most maxsize entries.
C14_CacheAtomicLRU ==
    /\ \A t \in ThreadIds :
          cache.th[t].pc \notin {"idle", "with_lock"} => cache.lock = t
    /\ \A t \in ThreadIds :
          cache.th[t].pc = "release" =>
              /\ cache.od = cache_after(cache.th[t].op, cache.th[t].key,
                                        cache.th[t].value, cache.before, cache.maxsize)
              /\ cache.th[t].ret = returned_by(cache.th[t].op, cache.th[t].key,
                                               cache.before)
              /\ (cache.th[t].op = "get" /\ cache.th[t].key \notin od_keys(cache.before))
                    => cache.th[t].ret = <<>> /\ cache.od = cache.before
              /\ cache.th[t].op = "set" => Len(cache.od) <= cache.maxsize
    /\ cache.lock = 0 => Len(cache.od) <= cache.maxsize
    /\ Cardinality(od_keys(cache.od)) = Len(cache.od)

\* A set of a new key into a full cache is about to return while another
\* thread waits for the lock: the least recent entry is gone, the new key is
\* the most recent one
C14_Witness ==
    \E t, u \in ThreadIds :
        /\ t # u
        /\ cache.th[t].pc = "release" /\ cache.th[t].op = "set"
        /\ cache.th[u].pc = "with_lock"
        /\ cache.maxsize = 2 /\ Len(cache.before) = 2
        /\ cache.th[t].key \notin od_keys(cache.before)
        /\ cache.before[1][1] \notin od_keys(cache.od)
        /\ cache.od[2] = <<cache.th[t].key, cache.th[t].value>>

----------------------------------------------------------------------------
\* Properties of Segment

\* C15 as stated: a.intersect(b) and b.intersect(a) are both absent, or both
\* exist and are equal as unordered segments.
\* Violated: the distance test projects the endpoints of the argument onto
\* the line of the receiver only, and the sort of the four dots by x + y
\* keeps dots of equal sum in the order receiver, argument.
C15_IntersectCommutative ==
    geo.pc = "intersected" =>
        \/ geo.ab = <<>> /\ geo.ba = <<>>
        \/ geo.ab # <<>> /\ geo.ba # <<>> /\ segment_eq(geo.ab[1], geo.ba[1])

\* The position of the dot (px, py) along the segment s, from s.a towards s.b
along(s, px, py) == (px - s.ax) * (s.bx - s.ax) + (py - s.ay) * (s.by - s.ay)

\* The segments inner and outer split the four endpoints of a and b: they
\* are the four dots, and along s no end of inner lies outside outer
middle_and_outer(s, a, b, inner, outer) ==
    /\ \E perm \in [1..4 -> 1..4] :
          /\ \A i, j \in 1..4 : i # j => perm[i] # perm[j]
          /\ <<<<inner.ax, inner.ay>>, <<inner.bx, inner.by>>,
               <<outer.ax, outer.ay>>, <<outer.bx, outer.by>>>>
                = [k \in 1..4 |-> four_dots(a, b)[perm[k]]]
    /\ Min2(along(s, outer.ax, outer.ay), along(s, outer.bx, outer.by))
          <= Min2(along(s, inner.ax, inner.ay), along(s, inner.bx, inner.by))
    /\ Max2(along(s, outer.ax, outer.ay), along(s, outer.bx, outer.by))
          >= Max2(along(s, inner.ax, inner.ay), along(s, inner.bx, inner.by))

\* The bounding box of u covers the segment s
box_covers(u, s) ==
    /\ segment_left(u) <= segment_left(s) /\ segment_right(u) >= segment_right(s)
    /\ segment_top(u) <= segment_top(s) /\ segment_bottom(u) >= segment_bottom(s)

\* C16 as stated: when a.intersect(b) exists it joins the two middle points
\* and a.union(b) the two outer points of the four endpoints in their order
\* along the segments, and the bounding box of the union covers a and b
\* ((0,0)-(10,0) and (5,0)-(15,0) give 5..10 and 0..15); when the
\* intersection is absent so is the union.
\* Violated: the four dots are sorted by x + y, which is not their order
\* along a segment that runs near the anti-diagonal.
C16_IntersectMiddleUnionOuter ==
    geo.pc = "unioned" =>
        /\ geo.ab = <<>> => geo.u = <<>>
        /\ geo.ab # <<>> =>
              /\ geo.u # <<>>
              /\ middle_and_outer(IF dist_squared(geo.a) # 0 THEN geo.a ELSE geo.b,
                                  geo.a, geo.b, geo.ab[1], geo.u[1])
              /\ box_covers(geo.u[1], geo.a) /\ box_covers(geo.u[1], geo.b)
        /\ (geo.a = Segment(0, 0, 10, 0) /\ geo.b = Segment(5, 0, 15, 0)) =>
              /\ geo.ab = <<Segment(5, 0, 10, 0)>>
              /\ geo.u = <<Segment(0, 0, 15, 0)>>

\* C17 as stated: union_all ends (after at most one pass per segment given,
\* and one more), returns at most as many segments as it was given, and no
\* two segments of the returned list have a union.
\* Violated: a pass tries s1.union(s2) only for s2 behind s1 in the list,
\* and s1.union(s2) may be absent where s2.union(s1) exists.
C17_UnionAllFixedPoint ==
    /\ geo.pc \in {"list", "returned"} => geo.passes <= Len(geo.input) + 1
    /\ geo.pc = "returned" =>
          /\ Len(geo.segs) <= Len(geo.input)
          /\ \A i, j \in 1..Len(geo.segs) :
                i # j => union(geo.segs[i], geo.segs[j]) = <<>>

----------------------------------------------------------------------------
\* Properties of InternalPanel.merge and merge_panels

\* The rectangle of p lies within the rectangle of m
within(p, m) == m.x <= p.x /\ m.y <= p.y /\ m.r >= p.r /\ m.b >= p.b

\* C18: for all panels self and other of a working set, self.merge(other,
\* all_panels) is a rectangle that contains the rectangle of self, and
\* self.merge(other, []) has at least the area of self.
C18_MergeContainsSelf ==
    stage = "merge" =>
        \A i, j \in 1..Len(panels_in) :
            /\ within(panels_in[i], merge(panels_in[i], panels_in[j], panels_in))
            /\ area(merge(panels_in[i], panels_in[j], <<>>)) >= area(panels_in[i])

\* merge_panels ran on a working set in which merging a pair gives a larger
\* panel, and in which a third panel keeps a pair from growing that would
\* grow if it were alone
C18_Witness ==
    /\ stage = "merge"
    /\ \E i, j \in 1..Len(panels_in) :
          /\ contains(panels_in[i], panels_in[j])
          /\ area(merge(panels_in[i], panels_in[j], panels_in)) > area(panels_in[i])
    /\ \E i, j \in 1..Len(panels_in) :
          /\ area(merge(panels_in[i], panels_in[j], <<>>)) > area(panels_in[i])
          /\ merge(panels_in[i], panels_in[j], panels_in) = panels_in[i]

\* A panel with the bounds of p is in the working set
has_bounds(ps, p) ==
    \E k \in 1..Len(ps) :
        ps[k].x = p.x /\ ps[k].y = p.y /\ ps[k].r = p.r /\ ps[k].b = p.b

\* C20 as stated: after merge_panels, for every pair in which one panel
\* contained more than 50% of the other, the contained panel is gone from
\* the working set and the container has the bounds of
\* container.merge(contained, all).
\* Violated: merge_panels binds the merged panel to its loop variable only;
\* the list keeps the container with its old bounds.
C20_ContainerAbsorbsContained ==
    stage = "merge" =>
        \A i, j \in 1..Len(panels_in) :
            (i # j /\ contains(panels_in[i], panels_in[j])) =>
                /\ \A k \in 1..Len(panels_out) : ~panel_eq(panels_out[k], panels_in[j])
                /\ has_bounds(panels_out, merge(panels_in[i], panels_in[j], panels_in))


----------------------------------------------------------------------------
\* Properties of dispatch_request

Responded == http.pc = "done"

TheRequest == http.req[1]

TheStatus == http.resp[1].status

\* A page route: under "/api/page/" and ending in ".png" or ".json", or
\* holding a "/debug/" part
IsPageRoute(path) ==
    starts_with_page(path) /\ (path.ext \in {"png", "json"} \/ has_debug_part(path))

\* The index text of a page route as the route reads it
PageIndex(path) ==
    IF path.ext = "png" THEN index_before_ext(path)
    ELSE IF ends_with_debug_json(path) THEN index_before_debug_json(path)
    ELSE IF has_debug_part(path) THEN index_before_debug(path)
    ELSE index_before_ext(path)

BadPageIndex(req) == IsPageRoute(req.path) /\ PageIndex(req.path) = <<>>

UnknownApiPath(req) ==
    /\ starts_with_api(req.path)
    /\ req.path \notin {ApiBook, ApiDebug, ApiSettings}
    /\ ~IsPageRoute(req.path)

StaticOutsideAllowList(req) ==
    ~starts_with_api(req.path) /\ static_rel(req.path) \notin StaticAllowed

PageOutOfRange(req) ==
    /\ IsPageRoute(req.path)
    /\ PageIndex(req.path) # <<>>
    /\ PageIndex(req.path)[1] \notin 0..(req.prev.page_count - 1)

NamedCause(req) ==
    \/ BadPageIndex(req) \/ UnknownApiPath(req) \/ StaticOutsideAllowList(req)
    \/ PageOutOfRange(req)

\* C19 as stated: dispatch_request never raises; a page route whose index is
\* not an integer returns 400; an unknown API path, a static path outside the
\* allow-list or a page index out of range returns 404; any other failure
\* returns 500 and a valid request returns 200, so a request with none of the
\* named causes returns 200 or 500.
C19_StatusAsStated ==
    Responded =>
        /\ ~http.resp[1].raised
        /\ BadPageIndex(TheRequest) => TheStatus = 400
        /\ (UnknownApiPath(TheRequest) \/ StaticOutsideAllowList(TheRequest)
            \/ (PageOutOfRange(TheRequest) /\ ~BadPageIndex(TheRequest)))
           => TheStatus = 404
        /\ ~NamedCause(TheRequest) => TheStatus \in {200, 500}

\* The page image or page JSON route with an integer index
IsPageData(path) ==
    /\ IsPageRoute(path)
    /\ ~has_debug_part(path)
    /\ ~ends_with_debug_json(path)
    /\ PageIndex(path) # <<>>

CachedFor(req) ==
    /\ req.qs.refresh # <<"1">>
    /\ PageIndex(req.path)[1] \in
          od_keys(IF req.path.ext = "png" THEN req.prev.png_cache
                  ELSE req.prev.json_cache)

BadSettingsValue(req) ==
    /\ req.path = ApiSettings
    /\ \/ (req.qs.min_panel_ratio # <<>> /\ ~float_ok(req.qs.min_panel_ratio[1]))
       \/ (req.qs.max_segments # <<>> /\ ~int_ok(req.qs.max_segments[1]))

DebugImagePresent(req) ==
    /\ PageIndex(req.path)[1] \in req.prev.debug_dirs
    /\ req.path = path_of(<<"api", "page", req.path.segs[3], "debug", "00-input">>, "jpg")

MissingDebugImage(req) ==
    /\ IsPageRoute(req.path)
    /\ req.path.ext # "png"
    /\ has_debug_part(req.path)
    /\ PageIndex(req.path) # <<>>
    /\ ~DebugImagePresent(req)

\* The request gets as far as reading the book, a debug image or a static file
ReadsFile(req) ==
    \/ req.path = ApiBook
    \/ ~starts_with_api(req.path) /\ ~StaticOutsideAllowList(req)
    \/ IsPageData(req.path) /\ ~PageOutOfRange(req) /\ ~CachedFor(req)
    \/ /\ IsPageRoute(req.path) /\ req.path.ext # "png" /\ has_debug_part(req.path)
       /\ PageIndex(req.path) # <<>> /\ DebugImagePresent(req)

Raised(req, names) == ReadsFile(req) /\ req.fault \in names

Is400(req) ==
    BadPageIndex(req) \/ BadSettingsValue(req) \/ Raised(req, {"ValueError"})

Is404(req) ==
    \/ UnknownApiPath(req) \/ StaticOutsideAllowList(req) \/ MissingDebugImage(req)
    \/ (IsPageData(req.path) /\ PageOutOfRange(req))
    \/ Raised(req, {"FileNotFoundError", "IndexError"})

Is500(req) == Raised(req, {"RuntimeError"})

\* C19, amended: dispatch_request never raises and the status follows the
\* kind of failure, not the route: 400 for every ValueError (an index text
\* that is not an integer, a settings value that is not a number, a
\* ValueError while reading), 404 for an unknown API path, a static path
\* outside the allow-list, a missing debug image, a page index out of range
\* on the page image and page JSON routes, and every FileNotFoundError or
\* IndexError while reading, 500 for any other exception, and 200 otherwise,
\* the debug step list of a page out of range included.
C19_StatusByFailure ==
    Responded =>
        /\ ~http.resp[1].raised
        /\ TheStatus = 400 <=> Is400(TheRequest)
        /\ TheStatus = 404 <=> Is404(TheRequest)
        /\ TheStatus = 500 <=> Is500(TheRequest)
        /\ TheStatus = 200 <=>
              ~(Is400(TheRequest) \/ Is404(TheRequest) \/ Is500(TheRequest))

\* A settings request with a value that is not a number was answered 400, and
\* the debug step list of a page out of range was answered 200
C19_Witness ==
    /\ Responded
    /\ \/ (BadSettingsValue(TheRequest) /\ TheStatus = 400)
       \/ (ends_with_debug_json(TheRequest.path) /\ PageOutOfRange(TheRequest)
           /\ TheStatus = 200)

----------------------------------------------------------------------------
\* Properties of the repair loop of order_panels

\* The list ind without the index e
without_index(ind, e) == SelectSeq(ind, LAMBDA v : v # e)

\* The step moves at most one index: with some index taken out, the list is
\* the same before and after
MovesAtMostOne ==
    \E e \in 0..(Len(bboxes) - 1) :
        without_index(indices', e) = without_index(indices, e)

\* C21: order_panels terminates for every input after at most n * n repair
\* passes (n the number of bboxes), also when the must-precede relation has a
\* cycle: every step of the loop either counts one more pass, which keeps the
\* pass counter within n * n and moves at most one index, or leaves the loop
\* with the list as it is.
C21_RepairBounded ==
    [][opc = "loop" =>
          \/ /\ iteration' = iteration + 1
             /\ iteration' <= Len(bboxes) * Len(bboxes)
             /\ MovesAtMostOne
          \/ /\ opc' = "returned"
             /\ indices' = indices
             /\ iteration' = iteration]_vars

\* The must-precede relation has a cycle and order_panels has returned after
\* exactly n * n passes, the last of which still moved an index
C21_Witness ==
    /\ opc = "returned"
    /\ ~MustPrecedeAcyclic
    /\ iteration = Len(bboxes) * Len(bboxes)
    /\ moved = 1

----------------------------------------------------------------------------
\* Properties of group_big_panels

\* The bounding rectangle of the union of p and o
BoundingUnion(p, o) ==
    from_xyrb(Min2(p.x, o.x), Min2(p.y, o.y), Max2(p.r, o.r), Max2(p.b, o.b))

\* The bounding box of the segment s, as a panel
SegmentBox(s) ==
    from_xyrb(Min2(s.ax, s.bx), Min2(s.ay, s.by), Max2(s.ax, s.bx), Max2(s.ay, s.by))

\* The union u bumps into a panel other than the pair (i, j): it overlaps a
\* panel that equals neither panel of the pair nor the union itself
UnionBumps(ps, i, j, u) ==
    \E k \in 1..Len(ps) :
        /\ ~panel_eq(ps[i], ps[k])
        /\ ~panel_eq(ps[j], ps[k])
        /\ ~panel_eq(ps[k], u)
        /\ overlaps(u, ps[k])

\* A segment within 15 degrees of horizontal or vertical, longer than a fifth
\* of the diagonal of u, lies in u (contains_segment: its bounding box
\* overlaps u)
StrongSegmentIn(segs, u) ==
    \E s \in segs :
        /\ is_axis_aligned(s)
        /\ 25 * dist_squared(s) > w(u) * w(u) + h(u) * h(u)
        /\ overlaps(u, SegmentBox(s))

GroupQualifies(ps, segs, i, j) ==
    /\ ~UnionBumps(ps, i, j, BoundingUnion(ps[i], ps[j]))
    /\ ~StrongSegmentIn(segs, BoundingUnion(ps[i], ps[j]))

PanelPairs(ps) == {q \in (1..Len(ps)) \X (1..Len(ps)) : q[1] < q[2]}

\* qs is ps with the panels at positions i and j replaced by their union,
\* which is put at the end
PairReplaced(ps, qs, i, j) ==
    qs = WithoutPos(ps, {i, j}, 1) \o <<BoundingUnion(ps[i], ps[j])>>

----------------------------------------------------------------------------
\* Properties of expand_panels, side by side

\* The gaps between every panel of ps and its left (top) neighbour
GapsX(ps) ==
    {ps[i].x - ps[find_left_panel(ps, i)].r :
        i \in {k \in 1..Len(ps) : find_left_panel(ps, k) # 0}}

GapsY(ps) ==
    {ps[i].y - ps[panel_find_top_panel(ps, i)].b :
        i \in {k \in 1..Len(ps) : panel_find_top_panel(ps, k) # 0}}

\* The page-wide minimum gutter of an axis: the least gap, 1 without any
LeastGap(gaps) == IF gaps = {} THEN 1 ELSE SetMin(gaps)

\* The candidate coordinate for side d of the panel at position i of the
\* working list ps, gx and gy being the minimum gutters of the list handed in
Candidate(ps, i, d, gx, gy) ==
    CASE d = "x" -> IF find_left_panel(ps, i) # 0
                    THEN ps[find_left_panel(ps, i)].r + gx
                    ELSE SetMin({ps[k].x : k \in 1..Len(ps)})
      [] d = "r" -> IF find_right_panel(ps, i) # 0
                    THEN ps[find_right_panel(ps, i)].x - gx
                    ELSE SetMax({ps[k].r : k \in 1..Len(ps)})
      [] d = "y" -> IF panel_find_top_panel(ps, i) # 0
                    THEN ps[panel_find_top_panel(ps, i)].b + gy
                    ELSE SetMin({ps[k].y : k \in 1..Len(ps)})
      [] d = "b" -> IF find_bottom_panel(ps, i) # 0
                    THEN ps[find_bottom_panel(ps, i)].y - gy
                    ELSE SetMax({ps[k].b : k \in 1..Len(ps)})

\* The coordinate of side d after the candidate c was offered: c when it
\* enlarges the panel, else the coordinate as it was
Offered(p, d, c) ==
    IF d \in {"x", "y"} THEN Min2(p[d], c) ELSE Max2(p[d], c)

\* C23: in expand_panels, for every panel and side the candidate coordinate is
\* the facing edge of the neighbour on that side offset by the page-wide
\* minimum gutter of the axis, computed before any panel is expanded
\* (neighbour.right + gx on the left, neighbour.x - gx on the right, likewise
\* with gy), and the extreme coordinate over all panels on a side without
\* neighbour; the step for a side sets that side to the candidate where it
\* enlarges the panel and changes nothing else.
C23_ExpandCandidate ==
    [][(stage = "expand" /\ steps' = steps + 1) =>
          panels_out' =
              [panels_out EXCEPT ![(steps \div 4) + 1][ExpandDirs[(steps % 4) + 1]] =
                  Offered(panels_out[(steps \div 4) + 1], ExpandDirs[(steps % 4) + 1],
                          Candidate(panels_out, (steps \div 4) + 1,
                                    ExpandDirs[(steps % 4) + 1],
                                    LeastGap(GapsX(panels_in)),
                                    LeastGap(GapsY(panels_in))))]]_vars

\* As in the example of the claim: the call has returned, the least
\* horizontal gap of the page is narrower than the gap a panel had to its
\* right neighbour, and that panel's right edge now stops the least gap short
\* of the neighbour
C23_Witness ==
    /\ stage = "expand_returned"
    /\ GapsX(panels_in) # {}
    /\ \E i \in 1..Len(panels_in) :
          /\ find_right_panel(panels_in, i) # 0
          /\ panels_in[find_right_panel(panels_in, i)].x - panels_in[i].r
                > LeastGap(GapsX(panels_in))
          /\ LeastGap(GapsX(panels_in)) > 0
          /\ panels_out[i].r > panels_in[i].r
          /\ panels_out[i].r = panels_in[find_right_panel(panels_in, i)].x
                                  - LeastGap(GapsX(panels_in))

----------------------------------------------------------------------------
\* Properties of detect_panels: which stage runs, and when

\* The full page, which the fallback puts into an empty working set
FullPage(c) == <<from_xywh(0, 0, c.W, c.H)>>

\* split_panels has run on the working set ps: a panel is still splittable
\* only where it has a split, which the gutter check then refused
EveryPanelTried(ps, c, segs) ==
    \A k \in 1..Len(ps) :
        ps[k].spl => can_split(ps[k], c) /\ subpanels(ps[k], c, segs) # {}

\* The stages around the refinement: each follows the one before it in the
\* fixed order, the optional ones change the working set only under their flag
StagesInOrder ==
    /\ stage = "initial" =>
          /\ stage' = "grouped_small"
          /\ panels_out' = IF flags.small_grouping
                           THEN group_small_panels(panels_out, conf)
                           ELSE panels_out
    /\ stage = "grouped_small" =>
          /\ stage' = "split"
          /\ IF flags.splitting
             THEN EveryPanelTried(panels_out', conf, segments)
             ELSE panels_out' = panels_out
    /\ stage = "split" => stage' = "refined"
    /\ stage = "refined" =>
          /\ stage' = "expanded"
          /\ panels_out' = IF flags.expansion
                           THEN expand_panels(panels_out) ELSE panels_out
    /\ stage = "expanded" =>
          /\ stage' = "fallback"
          /\ panels_out' = IF panels_out = <<>>
                           THEN FullPage(conf) ELSE panels_out
    /\ stage = "fallback" =>
          /\ stage' = "grouped_big"
          /\ panels_out' = IF flags.big_grouping
                           THEN group_big_panels(panels_out, segments)
                           ELSE panels_out
    /\ stage = "grouped_big" =>
          /\ stage' = "returned"
          /\ panels_out' = remove_contained_panels(panels_out)
    /\ stage # "returned"

\* Merge contained, deoverlap and a second exclude small, as they follow the
\* split stage when splitting is on
MergedDeoverlapped(ps, c) ==
    {exclude_small(deoverlap_panels(m), c) : m \in merge_panels_results(ps)}

\* C24 as stated: the stages run in the fixed order, the four optional ones
\* exactly when their flag is on, merge contained exactly with splitting, and
\* exclude small, deoverlap, fallback and remove contained on every invocation
C24_StagesAsStated ==
    [][/\ StagesInOrder
       /\ stage = "split" =>
             IF flags.splitting
             THEN panels_out' \in
                     MergedDeoverlapped(exclude_small(panels_out, conf), conf)
             ELSE panels_out' =
                     deoverlap_panels(exclude_small(panels_out, conf))]_vars

\* C24: the stages run in the fixed order; group small, split, expand and group
\* big run exactly when their flag is on; merge contained and deoverlap (and a
\* second exclude small after them) run exactly when splitting is on; exclude
\* small, the fallback and remove contained run on every invocation
C24_StagesByFlag ==
    [][/\ StagesInOrder
       /\ stage = "split" =>
             IF flags.splitting
             THEN panels_out' \in
                     MergedDeoverlapped(exclude_small(panels_out, conf), conf)
             ELSE panels_out' = exclude_small(panels_out, conf)]_vars

\* detect_panels without splitting has refined a working set in which two
\* panels still overlap: deoverlap_panels would have moved their edges
C24_Witness ==
    /\ stage = "refined"
    /\ ~flags.splitting
    /\ Len(panels_out) >= 2
    /\ deoverlap_panels(panels_out) # panels_out

----------------------------------------------------------------------------
\* Properties of the page gutters (collect_all_gutters, actual_gutters)

\* The strictly positive gaps among the measured ones
PositiveGaps(gaps) == {g \in gaps : g > 0}

\* C25: the page gutter of each axis, which expand_panels uses as its offset
\* and CVDetector.detect reports, is the minimum over the strictly positive
\* gaps between neighbours (1 when no gap was measured), and is never zero
C25_GutterIsLeastPositiveGap ==
    stage = "expand_returned" =>
        /\ actual_gutters(panels_in).x = LeastGap(PositiveGaps(GapsX(panels_in)))
        /\ actual_gutters(panels_in).y = LeastGap(PositiveGaps(GapsY(panels_in)))
        /\ actual_gutters(panels_in).x > 0
        /\ actual_gutters(panels_in).y > 0

----------------------------------------------------------------------------
\* Properties of split_panels and the splittable flag

\* The panel the loop of split_panels tries next
TriedPos == sorted_pos(panels_out, steps + 1)

\* The image is even along the line s (or no image was given)
LineEven(s) == \A k \in 1..Len(gray_img) : s \notin gray_img[k]

\* p has a split, and the gutter check refuses it
HasRefusedSplit(p) ==
    \E sub \in subpanels(p, conf, segments) :
        can_split(p, conf) /\ ~LineEven(split_segment(p, sub))

\* The panel at position k of the working set keeps its bounds and polygon
SamePanel(k) ==
    [panels_out'[k] EXCEPT !.spl = panels_out[k].spl] = panels_out[k]

\* The tried panel is left in place: no split is applied, the loop goes on to
\* the next panel. A flag that is false stays false; a flag goes from true to
\* false only on the tried panel and only when it has no split; the tried
\* panel stays splittable only when its split was refused by the gutter check
TriedAndLeft ==
    /\ stage' = "split"
    /\ steps' = steps + 1
    /\ Len(panels_out') = Len(panels_out)
    /\ \A k \in 1..Len(panels_out) :
          /\ SamePanel(k)
          /\ ~panels_out[k].spl => ~panels_out'[k].spl
          /\ panels_out[k].spl /\ ~panels_out'[k].spl =>
                /\ k = TriedPos
                /\ ~can_split(panels_out[k], conf)
                   \/ subpanels(panels_out[k], conf, segments) = {}
    /\ panels_out'[TriedPos].spl => HasRefusedSplit(panels_out[TriedPos])

\* A split is applied: the tried panel was splittable and the image is even
\* along the cut; one panel equal to it leaves the list, the two sub-panels
\* are appended, every other panel stays as it is; a new pass begins
SplitApplied ==
    /\ stage' = "split"
    /\ steps' = 0
    /\ panels_out[TriedPos].spl
    /\ \E j \in 1..Len(panels_out), sub \in split_cuts(panels_out[TriedPos]) :
          /\ panel_eq(panels_out[j], panels_out[TriedPos])
          /\ LineEven(split_segment(panels_out[TriedPos], sub))
          /\ panels_out' = WithoutPos(panels_out, {j}, 1) \o sub

\* The loop stops: the pass has tried every panel and applied no split, and
\* the panels still splittable are those whose split the gutter check refused
PassWithoutSplit ==
    /\ stage' = "split_returned"
    /\ steps = Len(panels_out)
    /\ panels_out' = panels_out
    /\ \A k \in 1..Len(panels_out) :
          panels_out[k].spl => HasRefusedSplit(panels_out[k])

\* C26: the splittable flag never goes back from false to true and split() of
\* a panel whose flag is false returns no Split; a split refused only by the gutter
\* check leaves the flag true and the working set as it is, the loop goes on
\* to the next panel, and it stops after a full pass that applied no split
C26_SplittableMonotone ==
    [][stage = "split" =>
          TriedAndLeft \/ SplitApplied \/ PassWithoutSplit]_vars

\* A call has returned after applying a split; one panel is still splittable,
\* its split refused by the gutter check, another was marked unsplittable
C26_Witness ==
    /\ stage = "split_returned"
    /\ Len(panels_out) > Len(panels_in)
    /\ \E k \in 1..Len(panels_out) :
          panels_out[k].spl /\ HasRefusedSplit(panels_out[k])
    /\ \E k \in 1..Len(panels_out) : ~panels_out[k].spl

----------------------------------------------------------------------------
\* Properties of the refinement stages applied twice

\* C27: every refinement stage is idempotent: exclude_small, deoverlap_panels,
\* expand_panels, group_big_panels and remove_contained_panels, applied a
\* second time to their own output, change nothing
C27_StagesIdempotent ==
    /\ stage = "remove_contained" =>
          remove_contained_panels(panels_out) = panels_out
    /\ stage = "expand" => expand_panels(panels_out) = panels_out
    /\ stage = "deoverlap" => deoverlap_panels(panels_out) = panels_out
    /\ stage = "input" =>
          /\ exclude_small(exclude_small(panels_in, conf), conf) =
                exclude_small(panels_in, conf)
          /\ group_big_panels(group_big_panels(panels_in, segments), segments) =
                group_big_panels(panels_in, segments)

----------------------------------------------------------------------------
\* Properties of the preview server under concurrent requests

\* A call of update_settings or set_debug is under way on some thread
UpdateRunning ==
    \E t \in DOMAIN srv.threads : srv.threads[t].pc \in {"rebuild", "clear"}

\* The page was computed by the detector and in the debug mode of the moment
\* (a page of the forced ML detector depends on neither)
PageCurrent(page) ==
    page.det # 0 => page.det = srv.cv_detector /\ page.dbg = srv.debug

\* C28: once update_settings (or a set_debug that changes the mode) has
\* returned, every page the JSON cache serves without refresh was computed
\* with the new detector, also when a page_json call for the same page was
\* running on another thread during the update
C28_CachedPagesCurrent ==
    (srv.pc = "serving" /\ ~UpdateRunning) =>
        \A i \in 0..(MaxPages - 1) :
            \A k \in 1..Len(srv.json_cache[i]) : PageCurrent(srv.json_cache[i][k])

\* The page a thread has built or the cache holds
PagesBuilt ==
    {srv.threads[t].page :
        t \in {u \in DOMAIN srv.threads : srv.threads[u].pc = "store"}}
    \cup UNION {{srv.json_cache[i][k] : k \in 1..Len(srv.json_cache[i])} :
                   i \in 0..(MaxPages - 1)}

\* ML is forced and the ML detector is available
MlForced == srv.use_ml /\ srv.ml_detector

\* The fallback is enabled, the ML detector is available, the CV confidence
\* is below the threshold and the ML detector found at least one panel
MlFallbackTaken(page) ==
    /\ srv.ml_fallback
    /\ srv.ml_detector
    /\ page.cv_conf < confidence_threshold
    /\ page.ml_panels >= 1

\* C29: the recorded source is "yolo" exactly when the returned panels come
\* from the ML detector, which is when ML is forced and available or the
\* fallback was taken; otherwise the CV result is kept with source "cv"
C29_SourceMatchesDetector ==
    srv.pc = "serving" =>
        \A page \in PagesBuilt :
            /\ page.source = "yolo" <=> page.result = "ml"
            /\ page.result = "ml" <=> (MlForced \/ MlFallbackTaken(page))
            /\ page.result = "cv" <=> ~(MlForced \/ MlFallbackTaken(page))
            /\ page.source \in {"yolo", "cv"}

\* Both ways to "yolo" and the way back to "cv" have been taken: a cached page
\* of the ML detector
C29_Witness ==
    /\ srv.pc = "serving"
    /\ \E page \in PagesBuilt :
          /\ page.source = "yolo"
          /\ ~srv.use_ml
          /\ MlFallbackTaken(page)
    /\ \E page \in PagesBuilt :
          /\ page.source = "cv"
          /\ srv.ml_fallback /\ srv.ml_detector
          /\ page.cv_conf < confidence_threshold
          /\ page.ml_panels = 0

----------------------------------------------------------------------------
\* Properties of the panel bounds

\* right >= x and bottom >= y
WellFormed(p) == p.r >= p.x /\ p.b >= p.y

=============================================================================
